---- MODULE Spec2Model ----
(***************************************************************************)
(* A model of biblint (Kingsford-Group/biblint): the brace-tree model of   *)
(* bib/braces.go, the value/symbol semantics and the duplicate engine of   *)
(* the bib package, and the lexer and parser.                              *)
(*                                                                         *)
(* Strings are sequences of one-character strings, so that the code's      *)
(* character loops can be followed index by index.                         *)
(***************************************************************************)
EXTENDS Integers, Sequences, FiniteSets, TLC

VARIABLES
    \* ---- brace tree (bib/braces.go) ----
    s,          \* the string handed to ParseBraceTree
    bn,         \* the *BraceNode it returned
    size,       \* the consumed count it returned
    flat,       \* the result of bn.Flatten()
    bpc,        \* position of the brace-tree run: "start", "parsed", "flattened"
    \* ---- value and symbol semantics (bib package) ----
    Symbols,    \* db.Symbols: lower-case symbol name -> Value
    symb0,      \* the argument SymbolValue was called with
    symb,       \* SymbolValue's local symb (the value reached so far)
    svi,        \* SymbolValue's substitution counter i
    depth,      \* SymbolValue's depth argument
    spc,        \* position of SymbolValue: "loop", "done"
    v1, v2,     \* the operands of Equals and db.Less
    eq,         \* v1.Equals(v2)
    lt12, lt21, \* db.Less(v1, v2), db.Less(v2, v1)
    cpc,        \* position of the comparison run: "start", "done"
    \* ---- duplicate engine (bib package) ----
    Pubs,       \* db.Pubs
    PubsIn,     \* db.Pubs as it was when the last pass was called
    ndel,       \* the count the last pass handed to removeDeleted
    ran,        \* the passes called so far, in order
    panicked,   \* the last pass ended in a run-time panic
    \* ---- lexer and parser ----
    input,      \* the characters of the io.Reader handed to NewParser
    units,      \* the top-level units that input was written from
    parser,     \* the *Parser p
    database,   \* ParseBibTeX's local database
    ppc,        \* position of the parse: "start", "created", "loop", "done", "panic"
    \* ---- lexer alone ----
    stream,     \* the characters of the io.Reader handed to lexer.New
    lexer,      \* the *Lexer on stream
    toks,       \* what its NextToken calls returned, in order
    lexerW,     \* the *Lexer on stream followed by whitespace
    toksW,      \* what its NextToken calls returned, in order
    lpc,        \* position of the lexer run: "new", "lex"
    \* ---- author names (bib package) ----
    nameIn,     \* the string handed to NormalizeName
    author,     \* what NormalizeName(name) gave
    nameStr,    \* author.String()
    author2,    \* what NormalizeName(nameStr) gave
    npc,        \* position of the name run: "start", "parsed", "printed", "reparsed"
    \* ---- title fingerprints (bib package) ----
    titlePubs,  \* db.Pubs of the database FindDupsByTitle is called on
    thash,      \* what titleHash returned for each entry of titlePubs
    H,          \* the map FindDupsByTitle returned: fingerprint -> entries (ids)
    tpc,        \* position of the title run: "start", "edited", "done"
    \* ---- strange case (bib/braces.go) ----
    wordIn,     \* the string handed to IsStrangeCase
    strange,    \* what IsStrangeCase(wordIn) returned
    wpc,        \* position of the strange-case run: "start", "done"
    \* ---- minimal braces (bib/braces.go) ----
    minS,       \* the string handed to ParseBraceTree
    minTree,    \* the *BraceNode it returned
    minSize,    \* the consumed count it returned
    minOut,     \* what FlattenToMinBraces returned on minTree
    mpc,        \* position of the minimal-braces run: "start", "parsed", "done"
    \* ---- von part of a name (bib package) ----
    vonWords,   \* the word list handed to parseVon
    vonOut,     \* what parseVon returned
    vpc,        \* position of the parseVon run: "start", "done"
    \* ---- author-list splitting (bib/braces.go) ----
    splitS,     \* the string handed to splitOnTopLevelString(s, "and", true)
    pieces,     \* the []string it returned
    xpc,        \* position of the split run: "start", "done"
    \* ---- dollar signs (bib package) ----
    dollarV,    \* the field value CheckUnmatchedDollarSigns looks at
    dollarMsg,  \* the message its check function returned ("" for none)
    dpc,        \* position of the dollar-sign run: "start", "done"
    \* ---- ordering of field values (bib package) ----
    ordV,       \* three field values that SortByField compares
    ordLt,      \* ordLt[i][j] is db.Less(ordV[i], ordV[j])
    opc,        \* position of the ordering run: "start", "done"
    \* ---- entry kinds (bib package) ----
    kindIn,     \* the entry type handed to toEntryKind
    kindOut,    \* the EntryKind it returned
    kpc,        \* position of the kind run: "start", "done"
    \* ---- output (bib package) ----
    wKind,      \* e.Kind of the entry handed to writeEntry
    wTags,      \* the tags of e.Fields
    wOut,       \* the tags of the tag = value lines writeEntry wrote, in order
    wrpc        \* position of the output run: "start", "done"

braceVars == <<s, bn, size, flat, bpc>>
symVars == <<symb0, symb, svi, depth, spc>>
cmpVars == <<v1, v2, eq, lt12, lt21, cpc>>

dedupVars == <<Pubs, PubsIn, ndel, ran, panicked>>

parseVars == <<input, units, parser, database, ppc>>

lexVars == <<stream, lexer, toks, lexerW, toksW, lpc>>

nameVars == <<nameIn, author, nameStr, author2, npc>>

titleVars == <<titlePubs, thash, H, tpc>>

wordVars == <<wordIn, strange, wpc>>

minVars == <<minS, minTree, minSize, minOut, mpc>>

vonVars == <<vonWords, vonOut, vpc>>

splitVars == <<splitS, pieces, xpc>>

dollarVars == <<dollarV, dollarMsg, dpc>>

orderVars == <<ordV, ordLt, opc>>

kindVars == <<kindIn, kindOut, kpc>>

writeVars == <<wKind, wTags, wOut, wrpc>>

vars == <<braceVars, Symbols, symVars, cmpVars, dedupVars, parseVars, lexVars, nameVars, titleVars, wordVars, minVars, vonVars, splitVars, dollarVars, orderVars, kindVars, writeVars>>

(***************************************************************************)
(* Bounds of the model.                                                    *)
(***************************************************************************)
MaxLen == 5
MaxDepth == 3
MaxPubs == 3
MaxInput == 3
MaxPairs == 2
MaxName == 4
MaxTitle == 3
MaxWord == 4
MaxMin == 4
MaxWords == 3
MaxTokens == 4
MaxDollar == 4
MaxSkip == 4

(***************************************************************************)
(* Characters and strings.                                                 *)
(***************************************************************************)
\* unicode.IsSpace on the characters the model uses
IsSpace(c) == c \in {" ", "\t", "\n"}

\* all strings over alphabet A of length at most n
RECURSIVE StringsUpTo(_, _)
StringsUpTo(A, n) ==
    IF n = 0 THEN {<<>>}
    ELSE LET shorter == StringsUpTo(A, n - 1)
         IN  shorter \cup {Append(t, c) : t \in {u \in shorter : Len(u) = n - 1}, c \in A}

\* strings.TrimSpace
RECURSIVE TrimLeft(_)
TrimLeft(t) ==
    IF t # <<>> /\ IsSpace(Head(t)) THEN TrimLeft(Tail(t)) ELSE t

RECURSIVE TrimRight(_)
TrimRight(t) ==
    IF t # <<>> /\ IsSpace(t[Len(t)]) THEN TrimRight(SubSeq(t, 1, Len(t) - 1)) ELSE t

TrimSpace(t) == TrimRight(TrimLeft(t))

\* strings.Join(words, "")
RECURSIVE Join(_)
Join(words) ==
    IF words = <<>> THEN <<>> ELSE Head(words) \o Join(Tail(words))

(***************************************************************************)
(* bib/braces.go: BraceNode, ParseBraceTree, Flatten.                      *)
(***************************************************************************)
\* &BraceNode{Leaf: accum}
LeafNode(accum) == [Children |-> <<>>, Leaf |-> accum]

\* &BraceNode{Children: children}
InnerNode(children) == [Children |-> children, Leaf |-> <<>>]

\* the saveAccum closure: a non-empty accumulator becomes a leaf child
saveAccum(children, accum) ==
    IF Len(accum) > 0 THEN Append(children, LeafNode(accum)) ELSE children

\* ParseBraceTree(s) returns [node, n]: the tree and the number of
\* characters consumed.  PBTLoop is its for-loop, at index i (0-based) with
\* the children and the accumulator built so far.
RECURSIVE ParseBraceTree(_)
RECURSIVE PBTLoop(_, _, _, _)
PBTLoop(str, i, children, accum) ==
    IF i >= Len(str)
    THEN [node |-> InnerNode(saveAccum(children, accum)), n |-> i]
    ELSE LET r == str[i + 1]
         IN  CASE r = "{" ->
                    LET c == ParseBraceTree(SubSeq(str, i + 2, Len(str)))
                    IN  PBTLoop(str, i + 1 + c.n,
                                Append(saveAccum(children, accum), c.node), <<>>)
               [] r = "}" ->
                    [node |-> InnerNode(saveAccum(children, accum)), n |-> i + 1]
               [] OTHER ->
                    PBTLoop(str, i + 1, children, Append(accum, r))

ParseBraceTree(str) == PBTLoop(str, 0, <<>>, <<>>)

\* bn.IsLeaf()
IsLeaf(node) == Len(node.Children) = 0

\* bn.flatten(isroot, inclbraces)
RECURSIVE flatten(_, _, _)
flatten(node, isroot, inclbraces) ==
    IF IsLeaf(node) THEN node.Leaf
    ELSE LET words == [k \in 1..Len(node.Children) |->
                          flatten(node.Children[k], FALSE, inclbraces)]
         IN  IF isroot THEN Join(words)
             ELSE IF inclbraces THEN <<"{">> \o Join(words) \o <<"}">>
             ELSE Join(words)

\* bn.Flatten()
Flatten(node) == TrimSpace(flatten(node, TRUE, TRUE))

\* bn.FlattenForSorting()
FlattenForSorting(node) == flatten(node, TRUE, FALSE)

(***************************************************************************)
(* Characters: strings.ToLower and the byte order Go's string < uses.      *)
(***************************************************************************)
UpperChars == <<"A", "B", "C", "D", "E", "F", "G", "H", "I", "J", "K", "L", "M",
                "N", "O", "P", "Q", "R", "S", "T", "U", "V", "W", "X", "Y", "Z">>
LowerChars == <<"a", "b", "c", "d", "e", "f", "g", "h", "i", "j", "k", "l", "m",
                "n", "o", "p", "q", "r", "s", "t", "u", "v", "w", "x", "y", "z">>
DigitChars == <<"0", "1", "2", "3", "4", "5", "6", "7", "8", "9">>

IndexIn(seq, c) == CHOOSE k \in 1..Len(seq) : seq[k] = c
IsIn(seq, c) == \E k \in 1..Len(seq) : seq[k] = c

\* upper-case letter -> lower-case letter
LowerMap ==
    [c \in {UpperChars[k] : k \in 1..Len(UpperChars)} |-> LowerChars[IndexIn(UpperChars, c)]]

ToLowerChar(c) == IF c \in DOMAIN LowerMap THEN LowerMap[c] ELSE c

\* strings.ToLower
ToLower(str) == [k \in 1..Len(str) |-> ToLowerChar(str[k])]

\* the byte value of a character (ASCII)
Ord(c) ==
    CASE IsIn(DigitChars, c) -> 47 + IndexIn(DigitChars, c)
      [] IsIn(UpperChars, c) -> 64 + IndexIn(UpperChars, c)
      [] IsIn(LowerChars, c) -> 96 + IndexIn(LowerChars, c)
      [] c = "\t" -> 9
      [] c = "\n" -> 10
      [] c = " " -> 32
      [] c = "\"" -> 34
      [] c = "#" -> 35
      [] c = "(" -> 40
      [] c = ")" -> 41
      [] c = "," -> 44
      [] c = "-" -> 45
      [] c = "=" -> 61
      [] c = "@" -> 64
      [] c = "\\" -> 92
      [] c = "{" -> 123
      [] c = "}" -> 125

\* Go's a < b on strings: lexicographic on bytes
RECURSIVE StrLess(_, _)
StrLess(a, b) ==
    IF b = <<>> THEN FALSE
    ELSE IF a = <<>> THEN TRUE
    ELSE IF Head(a) = Head(b) THEN StrLess(Tail(a), Tail(b))
    ELSE Ord(Head(a)) < Ord(Head(b))

\* strconv.Itoa
RECURSIVE ItoaNat(_)
ItoaNat(n) ==
    IF n < 10 THEN <<DigitChars[n + 1]>>
    ELSE Append(ItoaNat(n \div 10), DigitChars[(n % 10) + 1])

Itoa(n) == IF n < 0 THEN <<"-">> \o ItoaNat(0 - n) ELSE ItoaNat(n)

(***************************************************************************)
(* Value, the predefined symbols, SymbolValue, Less, Equals.               *)
(***************************************************************************)
StringType == "StringType"
NumberType == "NumberType"
SymbolType == "SymbolType"

\* &Value{T: StringType, S: x}, &Value{T: NumberType, I: n}, &Value{T: SymbolType, S: x}
StringValue(x) == [T |-> StringType, S |-> x, I |-> 0]
NumberValue(n) == [T |-> NumberType, S |-> <<>>, I |-> n]
SymbolValueOf(x) == [T |-> SymbolType, S |-> x, I |-> 0]

\* the predefinedSymbols map, as a sequence of <<name, value>> pairs
predefinedSymbols ==
    << <<<<"j","a","n">>, <<"J","a","n","u","a","r","y">>>>,
       <<<<"f","e","b">>, <<"F","e","b","r","u","a","r","y">>>>,
       <<<<"m","a","r">>, <<"M","a","r","c","h">>>>,
       <<<<"a","p","r">>, <<"A","p","r","i","l">>>>,
       <<<<"m","a","y">>, <<"M","a","y">>>>,
       <<<<"j","u","n">>, <<"J","u","n","e">>>>,
       <<<<"j","u","l">>, <<"J","u","l","y">>>>,
       <<<<"a","u","g">>, <<"A","u","g","u","s","t">>>>,
       <<<<"s","e","p">>, <<"S","e","p","t","e","m","b","e","r">>>>,
       <<<<"o","c","t">>, <<"O","c","t","o","b","e","r">>>>,
       <<<<"n","o","v">>, <<"N","o","v","e","m","b","e","r">>>>,
       <<<<"d","e","c">>, <<"D","e","c","e","m","b","e","r">>>> >>

IsPredefined(name) == \E k \in 1..Len(predefinedSymbols) : predefinedSymbols[k][1] = name
Predefined(name) ==
    predefinedSymbols[CHOOSE k \in 1..Len(predefinedSymbols) : predefinedSymbols[k][1] = name][2]

\* The loop condition of SymbolValue: i < depth && symb.T == SymbolType
SymLoopCond(val, n, dep) == n < dep /\ val.T = SymbolType

\* SymBody with the predefined table consulted before db.Symbols
SymBody_PredefinedFirst(tbl, val, n) ==
    LET name == ToLower(val.S)
    IN  IF IsPredefined(name)
        THEN [symb |-> StringValue(Predefined(name)), i |-> n, returned |-> TRUE]
        ELSE IF name \in DOMAIN tbl
        THEN [symb |-> tbl[name], i |-> n + 1, returned |-> FALSE]
        ELSE [symb |-> val, i |-> n, returned |-> TRUE]

\* SymBody without the i++ of the substitution branch
SymBody_NoCount(tbl, val, n) ==
    LET name == ToLower(val.S)
    IN  IF name \in DOMAIN tbl
        THEN [symb |-> tbl[name], i |-> n, returned |-> FALSE]
        ELSE IF IsPredefined(name)
        THEN [symb |-> StringValue(Predefined(name)), i |-> n, returned |-> TRUE]
        ELSE [symb |-> val, i |-> n, returned |-> TRUE]

\* One iteration of SymbolValue's loop body from (symb, i): the value and
\* counter after it, and whether the iteration returned.
SymBody(tbl, val, n) ==
    LET name == ToLower(val.S)
    IN  IF name \in DOMAIN tbl
        THEN [symb |-> tbl[name], i |-> n + 1, returned |-> FALSE]
        ELSE IF IsPredefined(name)
        THEN [symb |-> StringValue(Predefined(name)), i |-> n, returned |-> TRUE]
        ELSE [symb |-> val, i |-> n, returned |-> TRUE]

\* db.SymbolValue(symb, depth), run to completion from counter n
RECURSIVE SymbolValueFrom(_, _, _, _)
SymbolValueFrom(tbl, val, n, dep) ==
    IF ~SymLoopCond(val, n, dep) THEN val
    ELSE LET r == SymBody(tbl, val, n)
         IN  IF r.returned THEN r.symb ELSE SymbolValueFrom(tbl, r.symb, r.i, dep)

SymbolValue(tbl, val, dep) == SymbolValueFrom(tbl, val, 0, dep)

\* the recursion depth db.Less resolves symbols to
LessDepth == 10

\* db.Less(v1, v2)
Less(tbl, a, b) ==
    LET x == SymbolValue(tbl, a, LessDepth)
        y == SymbolValue(tbl, b, LessDepth)
        vs1 == IF x.T = NumberType THEN Itoa(x.I) ELSE x.S
        vs2 == IF y.T = NumberType THEN Itoa(y.I) ELSE y.S
    IN  IF x.T \in {StringType, SymbolType} /\ y.T \in {StringType, SymbolType}
        THEN StrLess(FlattenForSorting(ParseBraceTree(x.S).node),
                     FlattenForSorting(ParseBraceTree(y.S).node))
        ELSE IF x.T = NumberType /\ y.T = NumberType
        THEN x.I < y.I
        ELSE StrLess(vs1, vs2)

\* Equals with the NumberType case comparing nothing
Equals_NoNumberCase(a, b) ==
    IF a.T = b.T
    THEN IF a.T \in {StringType, SymbolType} THEN a.S = b.S ELSE TRUE
    ELSE FALSE

\* v1.Equals(v2)
Equals(a, b) ==
    IF a.T = b.T
    THEN IF a.T \in {StringType, SymbolType} THEN a.S = b.S ELSE a.I = b.I
    ELSE FALSE

(***************************************************************************)
(* Entry kinds, Entry.IsSubset, Entry.Equals.                              *)
(***************************************************************************)
Deleted == "**DELETED**"
Other == "other"

\* the identToKind map, as a sequence of <<name, kind>> pairs
identToKind ==
    << <<<<"o","t","h","e","r">>, "other">>,
       <<<<"s","t","r","i","n","g">>, "string">>,
       <<<<"p","r","e","a","m","b","l","e">>, "preamble">>,
       <<<<"a","r","t","i","c","l","e">>, "article">>,
       <<<<"b","o","o","k">>, "book">>,
       <<<<"i","n","b","o","o","k">>, "inbook">>,
       <<<<"i","n","c","o","l","l","e","c","t","i","o","n">>, "incollection">>,
       <<<<"i","n","p","r","o","c","e","e","d","i","n","g","s">>, "inproceedings">>,
       <<<<"m","a","n","u","a","l">>, "manual">>,
       <<<<"m","a","s","t","e","r","s","t","h","e","s","i","s">>, "mastersthesis">>,
       <<<<"m","i","s","c">>, "misc">>,
       <<<<"p","h","d","t","h","e","s","i","s">>, "phdthesis">>,
       <<<<"p","r","o","c","e","e","d","i","n","g","s">>, "proceedings">>,
       <<<<"t","e","c","h","r","e","p","o","r","t">>, "techreport">>,
       <<<<"u","n","p","u","b","l","i","s","h","e","d">>, "unpublished">> >>

\* toEntryKind
toEntryKind(str) ==
    LET name == ToLower(str)
    IN  IF \E k \in 1..Len(identToKind) : identToKind[k][1] = name
        THEN identToKind[CHOOSE k \in 1..Len(identToKind) : identToKind[k][1] = name][2]
        ELSE Other

\* e1.IsSubset(e2)
IsSubset(e1, e2) ==
    IF e1.Kind # e2.Kind \/ ToLower(e1.EntryString) # ToLower(e2.EntryString)
    THEN FALSE
    ELSE \A tag \in DOMAIN e1.Fields :
             tag \in DOMAIN e2.Fields /\ Equals(e1.Fields[tag], e2.Fields[tag])

\* e1.Equals(e2)
EntryEquals(e1, e2) == IsSubset(e1, e2) /\ IsSubset(e2, e1)

(***************************************************************************)
(* removeDeleted, RemoveExactDups, RemoveContainedEntries.  Entries are    *)
(* pointers in the code: a bin holds positions of db.Pubs, and marking an  *)
(* entry Deleted changes the entry that db.Pubs holds.                     *)
(***************************************************************************)
TitleTag == <<"t","i","t","l","e">>
YearTag == <<"y","e","a","r">>

\* a nil *Entry (a slot of newPubs that removeDeleted never wrote)
NilEntry == [Kind |-> "nil", EntryString |-> <<>>, Key |-> <<>>, Fields |-> <<>>, id |-> 0]

\* entries[k].Kind = Deleted
MarkDeleted(P, k) == [P EXCEPT ![k].Kind = Deleted]

\* db.removeDeleted(ndel) on db.Pubs = P: the new db.Pubs, or a panic when
\* make() gets a negative length or newPubs[i] is out of range
removeDeleted(P, n) ==
    LET live == SelectSeq(P, LAMBDA e : e.Kind # Deleted)
        newLen == Len(P) - n
    IN  IF newLen < 0 \/ Len(live) > newLen
        THEN [panic |-> TRUE, Pubs |-> P]
        ELSE [panic |-> FALSE,
              Pubs |-> live \o [k \in 1..(newLen - Len(live)) |-> NilEntry]]

\* the positions whose bin key (keys[k], for db.Pubs[k]) is key, in db.Pubs
\* order: the slice the map holds for key
RECURSIVE BinFrom(_, _, _)
BinFrom(keys, key, k) ==
    IF k > Len(keys) THEN <<>>
    ELSE IF keys[k] = <<TRUE, key>>
    THEN <<k>> \o BinFrom(keys, key, k + 1)
    ELSE BinFrom(keys, key, k + 1)

\* the keys of the map
BinKeys(keys) == {keys[k][2] : k \in {x \in 1..Len(keys) : keys[x][1]}}

\* all orders in which a map with the key set K can be ranged over
Orders(K) ==
    {o \in [1..Cardinality(K) -> K] : \A a, b \in DOMAIN o : a # b => o[a] # o[b]}

\* RemoveExactDups bins by key with the case folded; every entry has a bin
ExactBinKey_CaseSensitive(e) == <<TRUE, e.Key>>

ExactBinKey(e) == <<TRUE, ToLower(e.Key)>>

\* RemoveExactDups, the loop over j for one i: mark entries[i] and stop at
\* the first later entry that Equals it
RECURSIVE ExactInner(_, _, _, _)
ExactInner(st, bin, a, b) ==
    IF b > Len(bin) THEN st
    ELSE IF EntryEquals(st.P[bin[a]], st.P[bin[b]])
    THEN [P |-> MarkDeleted(st.P, bin[a]), ndel |-> st.ndel + 1]
    ELSE ExactInner(st, bin, a, b + 1)

\* RemoveExactDups, the loop over i for one bin
RECURSIVE ExactBin(_, _, _)
ExactBin(st, bin, a) ==
    IF a > Len(bin) THEN st
    ELSE ExactBin(ExactInner(st, bin, a, a + 1), bin, a + 1)

\* RemoveContainedEntries bins the entries that have a String title by it
TitleBinKey(e) ==
    IF TitleTag \in DOMAIN e.Fields /\ e.Fields[TitleTag].T = StringType
    THEN <<TRUE, e.Fields[TitleTag].S>>
    ELSE <<FALSE, <<>>>>

\* the loop body of RemoveContainedEntries without its else-if branch
ContainedPair_NoElse(st, x, y) ==
    IF IsSubset(st.P[x], st.P[y])
    THEN [P |-> MarkDeleted(st.P, x), ndel |-> st.ndel + 1]
    ELSE st

\* RemoveContainedEntries, the loop body for the pair entries[i] = P[x],
\* entries[j] = P[y]
ContainedPair(st, x, y) ==
    IF IsSubset(st.P[x], st.P[y])
    THEN [P |-> MarkDeleted(st.P, x), ndel |-> st.ndel + 1]
    ELSE IF IsSubset(st.P[y], st.P[x])
    THEN [P |-> MarkDeleted(st.P, y), ndel |-> st.ndel + 1]
    ELSE st

\* RemoveContainedEntries, the loop over j for one i
RECURSIVE ContainedInner(_, _, _, _)
ContainedInner(st, bin, a, b) ==
    IF b > Len(bin) THEN st
    ELSE ContainedInner(ContainedPair(st, bin[a], bin[b]), bin, a, b + 1)

\* RemoveContainedEntries, the loop over i for one bin
RECURSIVE ContainedBin(_, _, _)
ContainedBin(st, bin, a) ==
    IF a > Len(bin) THEN st
    ELSE ContainedBin(ContainedInner(st, bin, a, a + 1), bin, a + 1)

\* the bin key of every entry of db.Pubs, for each of the two passes
ExactKeys(P) == [k \in 1..Len(P) |-> ExactBinKey(P[k])]
TitleKeys(P) == [k \in 1..Len(P) |-> TitleBinKey(P[k])]

\* RemoveExactDups, "for _, entries := range bins", the keys ranged over in
\* order
RECURSIVE ExactOverBins(_, _, _)
ExactOverBins(st, keys, order) ==
    IF order = <<>> THEN st
    ELSE ExactOverBins(ExactBin(st, BinFrom(keys, Head(order), 1), 1), keys, Tail(order))

\* RemoveContainedEntries, "for _, entries := range byTitle"
RECURSIVE ContainedOverBins(_, _, _)
ContainedOverBins(st, keys, order) ==
    IF order = <<>> THEN st
    ELSE ContainedOverBins(ContainedBin(st, BinFrom(keys, Head(order), 1), 1),
                           keys, Tail(order))

\* db.RemoveExactDups() up to its call of removeDeleted: the marked entries
\* and ndel
RemoveExactDupsMarks(P, order) ==
    ExactOverBins([P |-> P, ndel |-> 0], ExactKeys(P), order)

\* db.RemoveContainedEntries() up to its call of removeDeleted
RemoveContainedEntriesMarks(P, order) ==
    ContainedOverBins([P |-> P, ndel |-> 0], TitleKeys(P), order)

(***************************************************************************)
(* lexer/lexer.go.  The lexer l is [pos, ch, err, lineno, colno]: pos is   *)
(* the number of runes read from the stream inp, err is "nil" or "EOF".    *)
(*                                                                         *)
(* The operations of the lexer and of the parser take the state they work  *)
(* on as a parameter (l0, p0, ...) and bind it once to its value (l, p,    *)
(* ...) as the element of a singleton set, so that a chain of calls is     *)
(* evaluated once per call.                                                *)
(***************************************************************************)
ILLEGAL == "ILLEGAL"
EOF == "EOF"
IDENT == "IDENT"
STRINGTOKEN == "STRING"
AT == "@"
COMMA == ","
LBRACE == "{"
RBRACE == "}"
HASH == "#"
EQUALS == "="

\* the element of a singleton set
Only(S) == CHOOSE x \in S : TRUE

\* &Token{Type: t, Literal: lit, lineno: line, colno: col}
Token(t, lit, line, col) == [Type |-> t, Literal |-> lit, lineno |-> line, colno |-> col]

EOFToken == Token(EOF, <<>>, 0, 0)

\* a nil *Token
NilToken == Token("nil", <<>>, 0, 0)

\* l.nextRune(): [ok, l]
nextRune(inp, l0) ==
    Only({ IF l.pos >= Len(inp)
           THEN [ok |-> FALSE, l |-> [l EXCEPT !.err = "EOF"]]
           ELSE [ok |-> TRUE,
                 l |-> [l EXCEPT !.pos = l.pos + 1,
                                 !.ch = c,
                                 !.lineno = IF c = "\n" THEN l.lineno + 1 ELSE l.lineno,
                                 !.colno = IF c = "\n" THEN 1 ELSE l.colno + 1]]
           : l \in {l0}, c \in {IF l0.pos >= Len(inp) THEN "NUL" ELSE inp[l0.pos + 1]} })

\* lexer.New(f): the rune 0 is written "NUL"
NewLexer(inp) ==
    nextRune(inp, [pos |-> 0, ch |-> "NUL", err |-> "nil", lineno |-> 1, colno |-> 1]).l

\* l.skipWhitespace(): the lexer after it; its result is that lexer's err
RECURSIVE skipWhitespace(_, _, _)
skipWhitespace(inp, l0, first) ==
    Only({ IF first
           THEN IF ~IsSpace(l.ch) THEN l ELSE skipWhitespace(inp, l, FALSE)
           ELSE Only({ IF ~r.ok THEN r.l
                       ELSE IF ~IsSpace(r.l.ch) THEN r.l
                       ELSE skipWhitespace(inp, r.l, FALSE)
                       : r \in {nextRune(inp, l)} })
           : l \in {l0} })

\* l.readQuoteString(), its loop from the buffer b: [l, str, err]
RECURSIVE readQuoteString(_, _, _, _)
readQuoteString(inp, l0, b0, escape) ==
    Only({ IF ~r.ok THEN [l |-> r.l, str |-> <<>>, err |-> r.l.err]
           ELSE IF r.l.ch = "\"" /\ ~escape
           THEN Only({ [l |-> r2.l, str |-> b, err |-> r2.l.err] : r2 \in {nextRune(inp, r.l)} })
           ELSE readQuoteString(inp, r.l, Append(b, r.l.ch), ~escape /\ r.l.ch = "\\")
           : r \in {nextRune(inp, l0)}, b \in {b0} })

\* the characters that end an identifier: strings.ContainsRune("@#,{}=\"(", ch)
IdentStop == {"@", "#", ",", "{", "}", "=", "\"", "("}

\* l.readIdent(), its loop from the buffer b: [l, str, err]
RECURSIVE readIdent(_, _, _)
readIdent(inp, l0, b0) ==
    Only({ IF ~r.ok THEN [l |-> r.l, str |-> <<>>, err |-> r.l.err]
           ELSE IF IsSpace(r.l.ch) \/ r.l.ch \in IdentStop
           THEN [l |-> r.l, str |-> b, err |-> r.l.err]
           ELSE readIdent(inp, r.l, Append(b, r.l.ch))
           : r \in {nextRune(inp, l0)}, b \in {b0} })

\* bcount after the rune ch
BraceCount(ch, escape, bcount) ==
    IF ch = "{" /\ ~escape THEN bcount + 1
    ELSE IF ch = "}" /\ ~escape THEN bcount - 1
    ELSE bcount

\* l.readBracesString(), its loop from the buffer b: [l, str, err]
RECURSIVE readBracesString(_, _, _, _, _)
readBracesString(inp, l0, b0, escape, bcount) ==
    Only({ IF ~r.ok THEN [l |-> r.l, str |-> <<>>, err |-> r.l.err]
           ELSE IF BraceCount(r.l.ch, escape, bcount) = 0
           THEN Only({ [l |-> r2.l, str |-> b, err |-> r2.l.err] : r2 \in {nextRune(inp, r.l)} })
           ELSE readBracesString(inp, r.l, Append(b, r.l.ch),
                                 ~escape /\ r.l.ch = "\\",
                                 BraceCount(r.l.ch, escape, bcount))
           : r \in {nextRune(inp, l0)}, b \in {b0} })

\* l.newToken(t, lit)
newToken(l, t, lit) == Token(t, lit, l.lineno, l.colno)

\* a one-character token: newToken, then nextRune
SingleToken(inp, l, t) ==
    [l |-> nextRune(inp, l).l, tok |-> newToken(l, t, <<l.ch>>), err |-> "nil"]

\* the token of a string or identifier that was read, or its error
ReadToken(r0, t) ==
    Only({ IF r.err # "nil"
           THEN [l |-> r.l, tok |-> NilToken, err |-> r.err]
           ELSE [l |-> r.l, tok |-> newToken(r.l, t, r.str), err |-> "nil"]
           : r \in {r0} })

\* l.NextToken(braceStrings): [l, tok, err]
NextToken(inp, l0, braceStrings) ==
    Only({ IF l.err # "nil"
           THEN [l |-> l, tok |-> EOFToken, err |-> "nil"]
           ELSE CASE l.ch = "@" -> SingleToken(inp, l, AT)
                  [] l.ch = "," -> SingleToken(inp, l, COMMA)
                  [] l.ch = "}" -> SingleToken(inp, l, RBRACE)
                  [] l.ch = ")" -> SingleToken(inp, l, RBRACE)
                  [] l.ch = "=" -> SingleToken(inp, l, EQUALS)
                  [] l.ch = "#" -> SingleToken(inp, l, HASH)
                  [] l.ch = "{" ->
                       IF ~braceStrings THEN SingleToken(inp, l, LBRACE)
                       ELSE ReadToken(readBracesString(inp, l, <<>>, FALSE, 1), STRINGTOKEN)
                  [] l.ch = "(" -> SingleToken(inp, l, LBRACE)
                  [] l.ch = "\"" -> ReadToken(readQuoteString(inp, l, <<>>, FALSE), STRINGTOKEN)
                  [] OTHER -> ReadToken(readIdent(inp, l, <<l.ch>>), IDENT)
           : l \in {skipWhitespace(inp, l0, TRUE)} })

(***************************************************************************)
(* The parser.  p is the *Parser: [lex, errors, curToken, peekToken,       *)
(* bracesAsString]; its operations return the parser after them together   *)
(* with their result.                                                      *)
(***************************************************************************)
\* newEntry()
newEntry == [Kind |-> "", EntryString |-> <<>>, Key |-> <<>>, Fields |-> <<>>, id |-> 0]

\* NewDatabase()
NewDatabase == [Pubs |-> <<>>, Symbols |-> <<>>, Preamble |-> <<>>]

\* the map m after m[k] = v
MapPut(m, k, v) == (k :> v) @@ m

\* the decimal value of a string of digits
RECURSIVE DigitsValue(_)
DigitsValue(str) ==
    IF str = <<>> THEN 0
    ELSE 10 * DigitsValue(SubSeq(str, 1, Len(str) - 1)) + (IndexIn(DigitChars, str[Len(str)]) - 1)

\* strconv.Atoi(str): [ok, i]
Atoi(str) ==
    LET signed == str # <<>> /\ str[1] \in {"+", "-"}
        digits == IF signed THEN Tail(str) ELSE str
    IN  IF digits # <<>> /\ \A k \in 1..Len(digits) : IsIn(DigitChars, digits[k])
        THEN [ok |-> TRUE,
              i |-> IF signed /\ str[1] = "-" THEN 0 - DigitsValue(digits) ELSE DigitsValue(digits)]
        ELSE [ok |-> FALSE, i |-> 0]

\* p.addError(msg)
addError(p0, msg) ==
    Only({ [p EXCEPT !.errors = Append(@, [err |-> p.lex.err, tok |-> p.peekToken, msg |-> msg])]
           : p \in {p0} })

\* p.peekError(expected)
peekError(p0, expected) ==
    Only({ addError(p, <<"expected", expected, "got", p.peekToken.Type, "instead">>)
           : p \in {p0} })

\* p.advanceTokens(): a token the lexer fails to read leaves both tokens alone
advanceTokens(inp, p0) ==
    Only({ IF r.err # "nil"
           THEN [p EXCEPT !.lex = r.l]
           ELSE [p EXCEPT !.lex = r.l, !.curToken = p.peekToken, !.peekToken = r.tok]
           : p \in {p0}, r \in {NextToken(inp, p0.lex, p0.bracesAsString)} })

\* p.peekTokenIs(t)
peekTokenIs(p, t) == p.peekToken.Type = t

\* p.expectPeek(t): [p, ok]
expectPeek(inp, p0, t) ==
    Only({ IF peekTokenIs(p, t)
           THEN [p |-> advanceTokens(inp, p), ok |-> TRUE]
           ELSE [p |-> peekError(p, t), ok |-> FALSE]
           : p \in {p0} })

\* the value of the IDENT or STRING in the cur position
TokenValue(tok) ==
    IF tok.Type = IDENT
    THEN IF Atoi(tok.Literal).ok
         THEN NumberValue(Atoi(tok.Literal).i)
         ELSE SymbolValueOf(tok.Literal)
    ELSE StringValue(tok.Literal)

\* readTagValue once the "=" was read
readValue(inp, p0, entry, tag) ==
    Only({ IF peekTokenIs(p, IDENT) \/ peekTokenIs(p, STRINGTOKEN)
           THEN Only({ [p |-> p2,
                        entry |-> [entry EXCEPT !.Fields = MapPut(@, tag, TokenValue(p2.curToken))],
                        ok |-> TRUE]
                       : p2 \in {advanceTokens(inp, p)} })
           ELSE [p |-> peekError(p, STRINGTOKEN), entry |-> entry, ok |-> FALSE]
           : p \in {p0} })

\* p.readTagValue(entry): [p, entry, ok]
readTagValue(inp, p0, entry0) ==
    Only({ IF ~r.ok THEN [p |-> r.p, entry |-> entry, ok |-> FALSE]
           ELSE readValue(inp, r.p, entry, ToLower(p.curToken.Literal))
           : p \in {p0}, entry \in {entry0}, r \in {expectPeek(inp, p0, EQUALS)} })

\* parsePreamble once the IDENT was read
preambleString(inp, p0, entryString) ==
    Only({ IF ~r.ok THEN [p |-> r.p, entry |-> NilEntry]
           ELSE [p |-> [r.p EXCEPT !.bracesAsString = FALSE],
                 entry |-> [newEntry EXCEPT !.Kind = "preamble",
                                            !.EntryString = entryString,
                                            !.Key = r.p.curToken.Literal]]
           : r \in {expectPeek(inp, p0, STRINGTOKEN)} })

\* p.parsePreamble(): [p, entry]
parsePreamble(inp, p0) ==
    Only({ IF ~r.ok THEN [p |-> r.p, entry |-> NilEntry]
           ELSE preambleString(inp, r.p, p.curToken.Literal)
           : p \in {p0}, r \in {expectPeek(inp, [p0 EXCEPT !.bracesAsString = TRUE], IDENT)} })

\* a parseEntry that never eats the COMMA after a tag/value pair
eatComma_Never(inp, p0) == p0

\* the parser after the COMMA that may follow a tag/value pair
eatComma(inp, p0) ==
    Only({ IF peekTokenIs(p, COMMA) THEN advanceTokens(inp, p) ELSE p : p \in {p0} })

\* the loop of parseEntry over the tag/value pairs: [p, entry]
RECURSIVE parseFields(_, _, _)
parseFields(inp, p0, entry0) ==
    Only({ IF peekTokenIs(p, RBRACE) THEN [p |-> p, entry |-> entry]
           ELSE Only({ IF ~r1.ok THEN [p |-> r1.p, entry |-> NilEntry]
                       ELSE Only({ IF ~r2.ok THEN [p |-> r2.p, entry |-> NilEntry]
                                   ELSE parseFields(inp, eatComma(inp, r2.p), r2.entry)
                                   : r2 \in {readTagValue(inp, r1.p, entry)} })
                       : r1 \in {expectPeek(inp, p, IDENT)} })
           : p \in {p0}, entry \in {entry0} })

\* parseEntry inside the tag/value pairs; the deferred function clears
\* bracesAsString when parseEntry returns
parsePairs(inp, p0, entry) ==
    Only({ [p |-> [r.p EXCEPT !.bracesAsString = FALSE], entry |-> r.entry]
           : r \in {parseFields(inp, [p0 EXCEPT !.bracesAsString = TRUE], entry)} })

\* parseEntry once the key was read
parseComma(inp, p0, entry0) ==
    Only({ IF ~r.ok THEN [p |-> r.p, entry |-> NilEntry]
           ELSE parsePairs(inp, r.p, [entry EXCEPT !.Key = p.curToken.Literal])
           : p \in {p0}, entry \in {entry0}, r \in {expectPeek(inp, p0, COMMA)} })

\* parseEntry once the LBRACE was read
parseBody(inp, p0, entry0) ==
    Only({ IF entry.Kind = "string" THEN parsePairs(inp, p, entry)
           ELSE Only({ IF ~r.ok THEN [p |-> r.p, entry |-> NilEntry]
                       ELSE parseComma(inp, r.p, entry)
                       : r \in {expectPeek(inp, p, IDENT)} })
           : p \in {p0}, entry \in {entry0} })

\* parseEntry once the entry type was read
parseType(inp, p0) ==
    Only({ IF ~r.ok THEN [p |-> r.p, entry |-> NilEntry]
           ELSE parseBody(inp, r.p, [newEntry EXCEPT !.Kind = toEntryKind(p.curToken.Literal),
                                                     !.EntryString = p.curToken.Literal])
           : p \in {p0}, r \in {expectPeek(inp, p0, LBRACE)} })

\* p.parseEntry(): [p, entry]
parseEntry(inp, p0) ==
    Only({ IF peekTokenIs(p, IDENT) /\ toEntryKind(p.peekToken.Literal) = "preamble"
           THEN parsePreamble(inp, p)
           ELSE Only({ IF ~r.ok THEN [p |-> r.p, entry |-> NilEntry]
                       ELSE parseType(inp, r.p)
                       : r \in {expectPeek(inp, p, IDENT)} })
           : p \in {p0} })

\* NewParser(f)
NewParser(inp) ==
    advanceTokens(inp,
        advanceTokens(inp,
            [lex |-> NewLexer(inp), errors |-> <<>>, curToken |-> NilToken,
             peekToken |-> NilToken, bracesAsString |-> FALSE]))

\* the parser and the database after ParseBibTeX has taken the entry in
StoreEntry(p0, db0, entry0) ==
    Only({ CASE entry = NilEntry -> [p |-> p, db |-> db]
             [] entry # NilEntry /\ entry.Kind = "string" ->
                  IF Cardinality(DOMAIN entry.Fields) # 1
                  THEN [p |-> addError(p, <<"Wrong number of string definitions in @string">>),
                        db |-> db]
                  ELSE LET k == CHOOSE x \in DOMAIN entry.Fields : TRUE
                       IN  [p |-> p, db |-> [db EXCEPT !.Symbols = MapPut(@, k, entry.Fields[k])]]
             [] entry # NilEntry /\ entry.Kind = "preamble" ->
                  [p |-> p, db |-> [db EXCEPT !.Preamble = Append(@, entry.Key)]]
             [] OTHER -> [p |-> p, db |-> [db EXCEPT !.Pubs = Append(@, entry)]]
           : p \in {p0}, db \in {db0}, entry \in {entry0} })

\* one iteration of the loop of ParseBibTeX: [p, db]
ParseIteration(inp, p0, db0) ==
    Only({ Only({ [p |-> advanceTokens(inp, st.p), db |-> st.db]
                  : st \in {StoreEntry(r.p, db0, r.entry)} })
           : r \in {IF p0.curToken.Type = AT THEN parseEntry(inp, p0)
                    ELSE [p |-> p0, entry |-> NilEntry]} })

\* ParseBibTeX from its loop on: the database it returns, "panic" when it
\* dereferences a nil curToken
RECURSIVE ParseLoop(_, _, _)
ParseLoop(inp, p0, db0) ==
    Only({ IF p.curToken = NilToken THEN "panic"
           ELSE IF p.curToken.Type = EOF THEN db
           ELSE Only({ ParseLoop(inp, r.p, r.db) : r \in {ParseIteration(inp, p, db)} })
           : p \in {p0}, db \in {db0} })

\* NewParser(f).ParseBibTeX()
ParseBibTeX(inp) ==
    ParseLoop(inp, [NewParser(inp) EXCEPT !.bracesAsString = FALSE], NewDatabase)

(***************************************************************************)
(* Author names (bib package).  Strings are indexed from 0 in the code:    *)
(* SubStr(str, a, b) is str[a:b].                                          *)
(***************************************************************************)
SubStr(str, a, b) == SubSeq(str, a + 1, b)

\* unicode.IsUpper, unicode.IsLower
IsUpper(c) == c \in DOMAIN LowerMap
IsLower(c) == c \in {LowerChars[k] : k \in 1..Len(LowerChars)}

\* strings.Join(words, sep)
RECURSIVE JoinWith(_, _)
JoinWith(words, sep) ==
    IF words = <<>> THEN <<>>
    ELSE IF Len(words) = 1 THEN words[1]
    ELSE words[1] \o sep \o JoinWith(Tail(words), sep)

\* nbraces after the rune r
CountBrace(nbraces, r) ==
    IF r = "{" THEN nbraces + 1 ELSE IF r = "}" THEN nbraces - 1 ELSE nbraces

\* the rune after the match of sep at i, as splitOnTopLevelString takes it
Following(str, sep, i) ==
    IF i + Len(sep) < Len(str) - 1 THEN str[i + Len(sep) + 1] ELSE " "

\* one iteration of the loop of splitOnTopLevelString, at the rune str[i];
\* st is [nbraces, lastend, split, prevchar]
splitStringStep(str, sep, whitespace, i, st0) ==
    Only({ [nbraces |-> nb,
            lastend |-> IF cut THEN i + Len(sep) ELSE st.lastend,
            split |-> IF cut THEN Append(st.split, SubStr(str, st.lastend, i)) ELSE st.split,
            prevchar |-> str[i + 1]]
           : st \in {st0},
             nb \in {CountBrace(st0.nbraces, str[i + 1])},
             cut \in { /\ CountBrace(st0.nbraces, str[i + 1]) = 0
                       /\ i >= st0.lastend
                       /\ i < Len(str) - Len(sep) + 1
                       /\ ToLower(SubStr(str, i, i + Len(sep))) = sep
                       /\ \/ ~whitespace
                          \/ IsSpace(st0.prevchar) /\ IsSpace(Following(str, sep, i)) } })

RECURSIVE splitStringLoop(_, _, _, _, _)
splitStringLoop(str, sep, whitespace, i, st0) ==
    Only({ IF i >= Len(str) THEN Append(st.split, SubStr(str, st.lastend, Len(str)))
           ELSE splitStringLoop(str, sep, whitespace, i + 1,
                                splitStringStep(str, sep, whitespace, i, st))
           : st \in {st0} })

\* splitOnTopLevelString(s, sep, whitespace)
splitOnTopLevelString(str, sep, whitespace) ==
    splitStringLoop(str, sep, whitespace, 0,
                    [nbraces |-> 0, lastend |-> 0, split |-> <<>>, prevchar |-> " "])

\* the loop of splitOnTopLevel from the rune str[i]; st is [nbraces, word, words]
RECURSIVE splitLoop(_, _, _)
splitLoop(str, i, st0) ==
    Only({ IF i > Len(str)
           THEN IF Len(st.word) > 0 THEN Append(st.words, st.word) ELSE st.words
           ELSE splitLoop(str, i + 1,
                    IF nb = 0 /\ IsSpace(str[i])
                    THEN IF Len(st.word) > 0
                         THEN [nbraces |-> nb, word |-> <<>>, words |-> Append(st.words, st.word)]
                         ELSE [st EXCEPT !.nbraces = nb]
                    ELSE [st EXCEPT !.nbraces = nb, !.word = Append(@, str[i])])
           : st \in {st0},
             nb \in {IF i > Len(str) THEN 0 ELSE CountBrace(st0.nbraces, str[i])} })

\* splitOnTopLevel(s)
splitOnTopLevel(str) ==
    splitLoop(TrimSpace(str), 1, [nbraces |-> 0, word |-> <<>>, words |-> <<>>])

\* the j that parseVon's loop ends with (0-based, -1 when no word before the
\* last one starts with a lower-case letter)
RECURSIVE vonIndex(_, _)
vonIndex(last, j) ==
    IF j < 0 THEN j
    ELSE IF IsLower(last[j + 1][1]) THEN j
    ELSE vonIndex(last, j - 1)

\* parseVon(last): [panic, von, last]; last[j+1:] with j + 1 < 0 is a
\* run-time panic (slice bounds out of range)
parseVon(last) ==
    IF Len(last) = 1 THEN [panic |-> FALSE, von |-> <<>>, last |-> last[1]]
    ELSE LET j == vonIndex(last, Len(last) - 2)
         IN  IF j + 1 < 0 THEN [panic |-> TRUE, von |-> <<>>, last |-> <<>>]
             ELSE [panic |-> FALSE,
                   von |-> IF j >= 0 THEN JoinWith(SubStr(last, 0, j + 1), <<" ">>) ELSE <<>>,
                   last |-> JoinWith(SubStr(last, j + 1, Len(last)), <<" ">>)]

\* the i that parseNameParts's loop ends with: the number of leading words,
\* the last word excluded, that start with an upper-case letter
RECURSIVE firstCount(_, _)
firstCount(words, i) ==
    IF i < Len(words) - 1 /\ IsUpper(words[i + 1][1]) THEN firstCount(words, i + 1) ELSE i

\* parseNameParts(name): [panic, first, von, last]
parseNameParts(name) ==
    LET words == splitOnTopLevel(name)
        i == firstCount(words, 0)
        vl == parseVon(SubStr(words, i, Len(words)))
    IN  [panic |-> vl.panic, first |-> JoinWith(SubStr(words, 0, i), <<" ">>),
         von |-> vl.von, last |-> vl.last]

\* &Author{}
Author(others, first, von, last, jr) ==
    [Others |-> others, First |-> first, Von |-> von, Last |-> last, Jr |-> jr]

\* what NormalizeName gives: an *Author, nil, or a run-time panic
SomeAuthor(a) == [res |-> "author", a |-> a]
NilAuthor == [res |-> "nil", a |-> Author(FALSE, <<>>, <<>>, <<>>, <<>>)]
PanicAuthor == [res |-> "panic", a |-> Author(FALSE, <<>>, <<>>, <<>>, <<>>)]

OthersName == <<"o","t","h","e","r","s">>

\* NormalizeName once the parts are split and trimmed
authorOfParts(parts) ==
    CASE Len(parts) = 1 ->
           LET r == parseNameParts(parts[1])
           IN  IF r.panic THEN PanicAuthor
               ELSE SomeAuthor(Author(FALSE, r.first, r.von, r.last, <<>>))
      [] Len(parts) = 2 ->
           LET r == parseVon(splitOnTopLevel(parts[1]))
           IN  IF r.panic THEN PanicAuthor
               ELSE SomeAuthor(Author(FALSE, parts[2], r.von, r.last, <<>>))
      [] Len(parts) = 3 ->
           LET r == parseVon(splitOnTopLevel(parts[1]))
           IN  IF r.panic THEN PanicAuthor
               ELSE SomeAuthor(Author(FALSE, parts[3], r.von, r.last, parts[2]))
      [] OTHER -> NilAuthor

\* NormalizeName(name)
NormalizeName(name0) ==
    Only({ IF Len(name) = 0 THEN NilAuthor
           ELSE IF ToLower(name) = OthersName
           THEN SomeAuthor(Author(TRUE, <<>>, <<>>, <<>>, <<>>))
           ELSE Only({ authorOfParts([k \in 1..Len(parts) |-> TrimSpace(parts[k])])
                       : parts \in {splitOnTopLevelString(name, <<",">>, FALSE)} })
           : name \in {TrimSpace(name0)} })

\* quoteName's loop: s has a " outside every {}
RECURSIVE hasTopQuote(_, _, _)
hasTopQuote(str, i, nbrace) ==
    IF i > Len(str) THEN FALSE
    ELSE IF str[i] = "\"" /\ nbrace = 0 THEN TRUE
    ELSE hasTopQuote(str, i + 1, CountBrace(nbrace, str[i]))

\* quoteName(s)
quoteName(str) ==
    IF hasTopQuote(str, 1, 0) THEN <<"{">> \o str \o <<"}">> ELSE str

\* a.String()
AuthorString(a) ==
    IF a.Others THEN OthersName
    ELSE LET last == quoteName(IF a.Von # <<>> THEN a.Von \o <<" ">> \o a.Last ELSE a.Last)
             first == quoteName(a.First)
             jr == quoteName(a.Jr)
         IN  IF last = <<>> THEN a.First
             ELSE IF a.First = <<>> THEN last
             ELSE IF a.Jr = <<>> THEN last \o <<",", " ">> \o first
             ELSE last \o <<",", " ">> \o jr \o <<",", " ">> \o first

(***************************************************************************)
(* Title fingerprints: removeNonLetters, titleHash, FindDupsByTitle.       *)
(***************************************************************************)
\* unicode.IsLetter on the characters the model uses
IsLetter(c) == IsIn(UpperChars, c) \/ IsIn(LowerChars, c)

\* removeNonLetters with no character removed
removeNonLetters_KeepAll(str) == str

\* removeNonLetters(s)
removeNonLetters(str) ==
    SelectSeq(str, LAMBDA c : IsLetter(c) \/ IsSpace(c))

\* strings.Fields(s) from position i on, word being the field read so far
RECURSIVE FieldsLoop(_, _, _, _)
FieldsLoop(str, i, word, words) ==
    IF i > Len(str)
    THEN IF word # <<>> THEN Append(words, word) ELSE words
    ELSE IF IsSpace(str[i])
         THEN FieldsLoop(str, i + 1, <<>>, IF word # <<>> THEN Append(words, word) ELSE words)
         ELSE FieldsLoop(str, i + 1, Append(word, str[i]), words)

\* strings.Fields(s)
StringsFields(str) == FieldsLoop(str, 1, <<>>, <<>>)

titleLowerWords ==
    << <<"t","h","e">>, <<"a">>, <<"a","n">>, <<"b","u","t">>, <<"f","o","r">>,
       <<"a","n","d">>, <<"o","r">>, <<"n","o","r">>, <<"t","o">>, <<"f","r","o","m">>,
       <<"o","n">>, <<"i","n">>, <<"o","f">>, <<"a","t">>, <<"b","y">> >>

\* titleHash's map tlw
tlw == { titleLowerWords[k] : k \in 1..Len(titleLowerWords) }

\* titleHash's loop over the fields: lower-case each, drop those in tlw
hashWords(fields) ==
    SelectSeq([k \in 1..Len(fields) |-> ToLower(fields[k])], LAMBDA w : w \notin tlw)

\* ParseBraceTree(s) returned size == len(s)
ParsesWhole(str) == ParseBraceTree(str).n = Len(str)

\* titleHash(e)
titleHash(e) ==
    IF TitleTag \in DOMAIN e.Fields /\ e.Fields[TitleTag].T = StringType
    THEN Only({ IF r.n = Len(e.Fields[TitleTag].S)
                THEN JoinWith(hashWords(StringsFields(removeNonLetters(FlattenForSorting(r.node)))),
                              <<" ">>)
                ELSE <<>>
                : r \in {ParseBraceTree(e.Fields[TitleTag].S)} })
    ELSE <<>>

\* FindDupsByTitle's loop from entry k on: h is H so far, hs the hashes computed
RECURSIVE FindDupsLoop(_, _, _, _)
FindDupsLoop(P, k, h, hs) ==
    IF k > Len(P) THEN [H |-> h, hashes |-> hs]
    ELSE Only({ FindDupsLoop(P, k + 1,
                    MapPut(h, hash, Append(IF hash \in DOMAIN h THEN h[hash] ELSE <<>>, P[k].id)),
                    Append(hs, hash))
                : hash \in {titleHash(P[k])} })

\* db.FindDupsByTitle() on db.Pubs = P
FindDupsByTitle(P) == FindDupsLoop(P, 1, <<>>, <<>>)


(***************************************************************************)
(* IsStrangeCase, HasQuote, splitWords, FlattenToMinBraces.                *)
(***************************************************************************)
\* unicode.IsPunct on the ASCII characters
PunctChars ==
    {"!", "\"", "#", "%", "&", "'", "(", ")", "*", ",", "-", ".", "/", ":", ";", "?", "@",
     "[", "\\", "]", "_", "{", "}"}

IsPunct(c) == c \in PunctChars

\* IsStrangeCase's loop from rune i on, with p and prevRune as they are
RECURSIVE strangeLoop(_, _, _, _)
strangeLoop(str, i, p, prevRune) ==
    IF i > Len(str) THEN FALSE
    ELSE IF p > 0 /\ prevRune # "-" /\ IsUpper(str[i]) THEN TRUE
    ELSE strangeLoop(str, i + 1, IF ~IsPunct(str[i]) THEN p + 1 ELSE p, str[i])

\* IsStrangeCase that takes any capital after the first rune
IsStrangeCase_AnyCapital(str) == \E i \in 2..Len(str) : IsUpper(str[i])

\* IsStrangeCase(s)
IsStrangeCase(str) == strangeLoop(str, 1, 0, " ")


\* HasQuote(w)
HasQuote(w) == \E k \in 1..Len(w) : w[k] = "\""

\* splitWords' loop from rune i on
RECURSIVE splitWordsLoop(_, _, _, _, _)
splitWordsLoop(str, i, inspace, curWord, words) ==
    IF i > Len(str)
    THEN IF curWord # <<>> THEN Append(words, curWord) ELSE words
    ELSE IF inspace = IsSpace(str[i])
         THEN splitWordsLoop(str, i + 1, inspace, Append(curWord, str[i]), words)
         ELSE splitWordsLoop(str, i + 1, IsSpace(str[i]), <<str[i]>>,
                             IF curWord # <<>> THEN Append(words, curWord) ELSE words)

\* splitWords that does not split
splitWords_Whole(str) == IF str = <<>> THEN <<>> ELSE <<str>>

\* splitWords(s)
splitWords(str) ==
    splitWordsLoop(str, 1, str # <<>> /\ IsSpace(str[1]), <<>>, <<>>)

\* FlattenToMinBraces' inner loop: the words of a leaf child, each in {} if
\* it is strange-case or has a quote
minWords(leaf) ==
    Only({ [k \in 1..Len(ws) |->
               IF IsStrangeCase(ws[k]) \/ HasQuote(ws[k])
               THEN <<"{">> \o ws[k] \o <<"}">>
               ELSE ws[k]]
           : ws \in {splitWords(leaf)} })

\* bn.FlattenToMinBraces() on a node that ParseBraceTree returned (its
\* Children is never nil)
FlattenToMinBraces(node) ==
    Join([k \in 1..Len(node.Children) |->
             IF IsLeaf(node.Children[k])
             THEN Join(minWords(node.Children[k].Leaf))
             ELSE flatten(node.Children[k], FALSE, TRUE)])


(***************************************************************************)
(* CheckUnmatchedDollarSigns.                                              *)
(***************************************************************************)
\* the loop of the check function from rune i on
RECURSIVE dollarLoop(_, _, _, _)
dollarLoop(str, i, ndollar, escape) ==
    IF i > Len(str) THEN ndollar
    ELSE CASE str[i] = "$" ->
                dollarLoop(str, i + 1, IF ~escape THEN ndollar + 1 ELSE ndollar, escape)
           [] str[i] = "\\" ->
                dollarLoop(str, i + 1, ndollar, ~escape)
           [] OTHER ->
                dollarLoop(str, i + 1, ndollar, FALSE)

\* the check function of CheckUnmatchedDollarSigns on the value v
checkDollar(v) ==
    IF v.T = StringType /\ dollarLoop(v.S, 1, 0, FALSE) % 2 # 0
    THEN "contains unbalanced $"
    ELSE ""

(***************************************************************************)
(* writeEntry.  What it writes is modelled by the tags of its tag = value  *)
(* lines, in order; each entry of required is given split at "/".          *)
(***************************************************************************)
required ==
    [other |-> <<>>, string |-> <<>>, preamble |-> <<>>,
     article |-> << <<"author">>, <<"title">>, <<"journal">>, <<"year">>, <<"volume">> >>,
     book |-> << <<"author", "editor">>, <<"title">>, <<"publisher">>, <<"year">> >>,
     booklet |-> << <<"title">> >>,
     inbook |-> << <<"author", "editor">>, <<"title">>, <<"chapter", "pages">>,
                   <<"publisher">>, <<"year">> >>,
     incollection |-> << <<"author">>, <<"title">>, <<"booktitle">>, <<"publisher">>,
                         <<"year">> >>,
     inproceedings |-> << <<"author">>, <<"title">>, <<"booktitle">>, <<"year">> >>,
     manual |-> << <<"title">> >>,
     mastersthesis |-> << <<"author">>, <<"title">>, <<"school">>, <<"year">> >>,
     misc |-> <<>>,
     phdthesis |-> << <<"author">>, <<"title">>, <<"school">>, <<"year">> >>,
     proceedings |-> << <<"title">>, <<"year">> >>,
     techreport |-> << <<"author">>, <<"title">>, <<"institution">>, <<"year">> >>,
     unpublished |-> << <<"author">>, <<"title">>, <<"note">> >>]

optional ==
    [other |-> <<>>, string |-> <<>>, preamble |-> <<>>,
     article |-> <<"number", "pages", "month">>,
     book |-> <<"volume", "number", "series", "address", "edition", "month">>,
     booklet |-> <<"author", "howpublished", "address", "month", "year">>,
     inbook |-> <<"volume", "number", "series", "type", "address", "edition", "month">>,
     incollection |-> <<"editor", "volume", "number", "series", "type", "chapter", "pages",
                        "address", "edition", "month">>,
     inproceedings |-> <<"editor", "volume", "number", "series", "pages", "address", "month",
                         "organization", "publisher">>,
     manual |-> <<"author", "organization", "address", "edition", "month", "year">>,
     mastersthesis |-> <<"type", "address", "month">>,
     misc |-> <<"author", "title", "howpublished", "month", "year">>,
     phdthesis |-> <<"type", "address", "month">>,
     proceedings |-> <<"editor", "volume", "number", "series", "address", "month",
                       "publisher", "organization">>,
     techreport |-> <<"type", "number", "address", "month">>,
     unpublished |-> <<"month", "year">>]

blessed == <<"key", "note", "url", "doi", "pmc", "pmid", "keywords", "issn", "isbn">>

\* the tags that the model's entries have, in the order of sort.Strings
SortedTags == <<"author", "doi", "editor", "month", "note", "title", "year", "zzz">>

\* e.Tags() for an entry whose Fields has the tags in fieldTags
Tags(fieldTags) == SelectSeq(SortedTags, LAMBDA tag : tag \in fieldTags)

\* the concatenation of a sequence of sequences
RECURSIVE Flat(_)
Flat(seqs) == IF seqs = <<>> THEN <<>> ELSE Head(seqs) \o Flat(Tail(seqs))

\* writeEntry(w, e): the tags of the lines written, for e.Kind = kind and
\* e.Fields with the tags fieldTags
writeEntry(kind, fieldTags) ==
    LET has(tag) == tag \in fieldTags
        req == IF kind \in DOMAIN required THEN SelectSeq(Flat(required[kind]), has) ELSE <<>>
        opt == IF kind \in DOMAIN optional THEN SelectSeq(optional[kind], has) ELSE <<>>
        bls == SelectSeq(blessed, has)
        printed == {req[k] : k \in 1..Len(req)} \cup {opt[k] : k \in 1..Len(opt)}
                       \cup {bls[k] : k \in 1..Len(bls)}
    IN  req \o opt \o bls \o SelectSeq(Tags(fieldTags), LAMBDA tag : tag \notin printed)

(***************************************************************************)
(* Parts of the state that a run does not use stay at these values.        *)
(***************************************************************************)
NoNode == [Children |-> <<>>, Leaf |-> <<>>]
NoValue == StringValue(<<>>)

IdleBrace == s = <<>> /\ bn = NoNode /\ size = 0 /\ flat = <<>> /\ bpc = "idle"
IdleSymbols == Symbols = <<>>
IdleSym == symb0 = NoValue /\ symb = NoValue /\ svi = 0 /\ depth = 0 /\ spc = "idle"
IdleCmp ==
    /\ v1 = NoValue /\ v2 = NoValue
    /\ eq = FALSE /\ lt12 = FALSE /\ lt21 = FALSE
    /\ cpc = "idle"
IdleDedup == Pubs = <<>> /\ PubsIn = <<>> /\ ndel = 0 /\ ran = <<>> /\ panicked = FALSE

\* a *Parser before NewParser has made it
NoParser ==
    [lex |-> [pos |-> 0, ch |-> "NUL", err |-> "nil", lineno |-> 1, colno |-> 1],
     errors |-> <<>>, curToken |-> NilToken, peekToken |-> NilToken,
     bracesAsString |-> FALSE]
IdleParse ==
    input = <<>> /\ units = <<>> /\ parser = NoParser /\ database = NewDatabase /\ ppc = "idle"

\* a Lexer before lexer.New has read the first rune
NoLexer == [pos |-> 0, ch |-> "NUL", err |-> "nil", lineno |-> 1, colno |-> 1]
IdleLex ==
    /\ stream = <<>> /\ lexer = NoLexer /\ toks = <<>>
    /\ lexerW = NoLexer /\ toksW = <<>> /\ lpc = "idle"

IdleName ==
    nameIn = <<>> /\ author = NilAuthor /\ nameStr = <<>> /\ author2 = NilAuthor /\ npc = "idle"

IdleTitle ==
    titlePubs = <<>> /\ thash = <<>> /\ H = <<>> /\ tpc = "idle"

IdleWord ==
    wordIn = <<>> /\ strange = FALSE /\ wpc = "idle"

IdleMin ==
    minS = <<>> /\ minTree = NoNode /\ minSize = 0 /\ minOut = <<>> /\ mpc = "idle"

IdleVon ==
    vonWords = <<>> /\ vonOut = [panic |-> FALSE, von |-> <<>>, last |-> <<>>] /\ vpc = "idle"

IdleSplit ==
    splitS = <<>> /\ pieces = <<>> /\ xpc = "idle"

IdleDollar ==
    dollarV = NoValue /\ dollarMsg = "" /\ dpc = "idle"

IdleOrder ==
    ordV = <<>> /\ ordLt = <<>> /\ opc = "idle"

IdleKind ==
    kindIn = <<>> /\ kindOut = "" /\ kpc = "idle"

IdleWrite ==
    wKind = "" /\ wTags = {} /\ wOut = <<>> /\ wrpc = "idle"

(***************************************************************************)
(* The brace-tree run: TestBraces' sequence ParseBraceTree; Flatten on an  *)
(* arbitrary input string.                                                 *)
(***************************************************************************)
BraceAlphabet == {"{", "}", "a", " "}

InitBrace ==
    /\ s \in StringsUpTo(BraceAlphabet, MaxLen)
    /\ bn = NoNode
    /\ size = 0
    /\ flat = <<>>
    /\ bpc = "start"
    /\ IdleSymbols /\ IdleSym /\ IdleCmp /\ IdleDedup /\ IdleParse /\ IdleLex /\ IdleName /\ IdleTitle /\ IdleWord /\ IdleMin /\ IdleVon /\ IdleSplit /\ IdleDollar /\ IdleOrder /\ IdleKind /\ IdleWrite

DoParseBraceTree ==
    /\ bpc = "start"
    /\ LET r == ParseBraceTree(s)
       IN  /\ bn' = r.node
           /\ size' = r.n
    /\ bpc' = "parsed"
    /\ UNCHANGED <<s, flat, Symbols, symVars, cmpVars, dedupVars, parseVars, lexVars, nameVars, titleVars, wordVars, minVars, vonVars, splitVars, dollarVars, orderVars, kindVars, writeVars>>

DoFlatten ==
    /\ bpc = "parsed"
    /\ flat' = Flatten(bn)
    /\ bpc' = "flattened"
    /\ UNCHANGED <<s, bn, size, Symbols, symVars, cmpVars, dedupVars, parseVars, lexVars, nameVars, titleVars, wordVars, minVars, vonVars, splitVars, dollarVars, orderVars, kindVars, writeVars>>

NextBrace == DoParseBraceTree \/ DoFlatten

SpecBrace == InitBrace /\ [][NextBrace]_vars

\* brace-balanced: every '}' closes an earlier '{' and every '{' is closed
RECURSIVE Depths(_, _)
Depths(str, d) ==
    IF str = <<>> THEN <<d>>
    ELSE <<d>> \o Depths(Tail(str),
                         IF Head(str) = "{" THEN d + 1
                         ELSE IF Head(str) = "}" THEN d - 1 ELSE d)

Balanced(str) ==
    LET ds == Depths(str, 0)
    IN  /\ \A k \in 1..Len(ds) : ds[k] >= 0
        /\ ds[Len(ds)] = 0

\* the string contains an empty group "{}"
HasEmptyGroup(str) ==
    \E k \in 1..(Len(str) - 1) : str[k] = "{" /\ str[k + 1] = "}"

\* C1: for every brace-balanced string s (groups nested or empty),
\* ParseBraceTree(s) consumes len(s) characters and Flatten() of the tree is
\* s with leading and trailing whitespace trimmed.
C1_RoundTrip ==
    (bpc = "flattened" /\ Balanced(s)) => (size = Len(s) /\ flat = TrimSpace(s))

(***************************************************************************)
(* The SymbolValue run: db.SymbolValue(symb0, depth) over an arbitrary     *)
(* symbol table, one loop iteration per step.                              *)
(***************************************************************************)
\* names that can be keys of db.Symbols (the parser stores lower-cased tags)
SymNames == {<<"a">>, <<"b">>, <<"j","a","n">>}

\* values a symbol can be defined as
SymDefs ==
    {StringValue(<<"X">>), NumberValue(7),
     SymbolValueOf(<<"a">>), SymbolValueOf(<<"B">>), SymbolValueOf(<<"j","a","n">>)}

SymTables == UNION {[D -> SymDefs] : D \in SUBSET SymNames}

\* values SymbolValue is called with
SymArgs ==
    {StringValue(<<"X">>), NumberValue(7),
     SymbolValueOf(<<"a">>), SymbolValueOf(<<"A">>), SymbolValueOf(<<"b">>),
     SymbolValueOf(<<"j","a","n">>), SymbolValueOf(<<"J","a","n">>),
     SymbolValueOf(<<"u">>)}

InitSym ==
    /\ Symbols \in SymTables
    /\ symb0 \in SymArgs
    /\ symb = symb0
    /\ svi = 0
    /\ depth \in 0..MaxDepth
    /\ spc = "loop"
    /\ IdleBrace /\ IdleCmp /\ IdleDedup /\ IdleParse /\ IdleLex /\ IdleName /\ IdleTitle /\ IdleWord /\ IdleMin /\ IdleVon /\ IdleSplit /\ IdleDollar /\ IdleOrder /\ IdleKind /\ IdleWrite

\* the loop condition fails: return symb
SymExit ==
    /\ spc = "loop"
    /\ ~SymLoopCond(symb, svi, depth)
    /\ spc' = "done"
    /\ UNCHANGED <<symb0, symb, svi, depth, Symbols, braceVars, cmpVars, dedupVars, parseVars, lexVars, nameVars, titleVars, wordVars, minVars, vonVars, splitVars, dollarVars, orderVars, kindVars, writeVars>>

\* a user-defined symbol: substitute and go round the loop again
SymSubstitute ==
    /\ spc = "loop"
    /\ SymLoopCond(symb, svi, depth)
    /\ ~SymBody(Symbols, symb, svi).returned
    /\ symb' = SymBody(Symbols, symb, svi).symb
    /\ svi' = SymBody(Symbols, symb, svi).i
    /\ UNCHANGED <<symb0, depth, spc, Symbols, braceVars, cmpVars, dedupVars, parseVars, lexVars, nameVars, titleVars, wordVars, minVars, vonVars, splitVars, dollarVars, orderVars, kindVars, writeVars>>

\* a predefined or an undefined symbol: return from inside the loop
SymReturn ==
    /\ spc = "loop"
    /\ SymLoopCond(symb, svi, depth)
    /\ SymBody(Symbols, symb, svi).returned
    /\ symb' = SymBody(Symbols, symb, svi).symb
    /\ svi' = SymBody(Symbols, symb, svi).i
    /\ spc' = "done"
    /\ UNCHANGED <<symb0, depth, Symbols, braceVars, cmpVars, dedupVars, parseVars, lexVars, nameVars, titleVars, wordVars, minVars, vonVars, splitVars, dollarVars, orderVars, kindVars, writeVars>>

NextSym == SymExit \/ SymSubstitute \/ SymReturn

\* SymbolValue is a plain sequential loop: an enabled iteration is executed
SpecSymbol == InitSym /\ [][NextSym]_vars /\ WF_vars(NextSym)

\* The chain of user definitions that starts at val: the number of
\* substitutions until a String or Number is reached, or -1 when the chain
\* does not end in one within fuel substitutions (an undefined or predefined
\* name, or a cycle).
RECURSIVE ChainLen(_, _, _)
ChainLen(tbl, val, fuel) ==
    IF val.T # SymbolType THEN 0
    ELSE IF fuel = 0 \/ ToLower(val.S) \notin DOMAIN tbl THEN -1
    ELSE LET rest == ChainLen(tbl, tbl[ToLower(val.S)], fuel - 1)
         IN  IF rest = -1 THEN -1 ELSE rest + 1

RECURSIVE ChainEnd(_, _, _)
ChainEnd(tbl, val, fuel) ==
    IF val.T # SymbolType \/ fuel = 0 \/ ToLower(val.S) \notin DOMAIN tbl THEN val
    ELSE ChainEnd(tbl, tbl[ToLower(val.S)], fuel - 1)

\* a chain that visits more names than there are has a cycle
Fuel == Cardinality(SymNames) + 1

\* the chain from val never leaves the user table: it runs into a cycle
Cyclic(tbl, val) ==
    LET e == ChainEnd(tbl, val, Fuel)
    IN  e.T = SymbolType /\ ToLower(e.S) \in DOMAIN tbl

\* C5: SymbolValue(v, maxDepth) returns a non-Symbol and an undefined Symbol
\* unchanged; resolves a Symbol heading a chain of k <= maxDepth user
\* definitions that ends in a String or Number to that terminal value; a name
\* in db.Symbols takes precedence over the predefined table; and a predefined
\* name resolves in one step to a String, which is not resolved further.
C5_SymbolValue ==
    spc = "done" =>
        LET name == ToLower(symb0.S)
            k == ChainLen(Symbols, symb0, Fuel)
        IN  /\ symb0.T # SymbolType => symb = symb0
            /\ (symb0.T = SymbolType /\ name \notin DOMAIN Symbols /\ ~IsPredefined(name))
                   => symb = symb0
            /\ (symb0.T = SymbolType /\ k >= 1 /\ k <= depth)
                   => symb = ChainEnd(Symbols, symb0, Fuel)
            /\ (symb0.T = SymbolType /\ name \in DOMAIN Symbols /\ IsPredefined(name)
                    /\ depth >= 1 /\ Symbols[name].T # SymbolType)
                   => symb = Symbols[name]
            /\ (symb0.T = SymbolType /\ name \notin DOMAIN Symbols /\ IsPredefined(name)
                    /\ depth >= 1)
                   => symb = StringValue(Predefined(name))

\* C5's case: a chain of two user definitions, through a name that is also
\* predefined, resolved to its String
C5_Witness ==
    /\ spc = "done"
    /\ symb0 = SymbolValueOf(<<"A">>)
    /\ <<"a">> \in DOMAIN Symbols /\ Symbols[<<"a">>] = SymbolValueOf(<<"j","a","n">>)
    /\ <<"j","a","n">> \in DOMAIN Symbols
    /\ Symbols[<<"j","a","n">>] = StringValue(<<"X">>)
    /\ depth = 2
    /\ symb = StringValue(<<"X">>)

\* C6: SymbolValue terminates on every symbol table, cyclic ones included:
\* it never does more than maxDepth substitutions, it reaches its return,
\* and on a cycle it returns, after exactly maxDepth substitutions, the
\* argument or one of the cycle's defined values.
C6_Terminates ==
    /\ [](svi <= depth)
    /\ <>(spc = "done")
    /\ []((spc = "done" /\ Cyclic(Symbols, symb0))
            => /\ svi = depth
               /\ symb.T = SymbolType
               /\ symb \in {symb0} \cup {Symbols[n] : n \in DOMAIN Symbols})

\* C6's case: the cycle a -> b -> a, returned from after maxDepth substitutions
C6_Witness ==
    /\ spc = "done"
    /\ symb0 = SymbolValueOf(<<"a">>)
    /\ <<"a">> \in DOMAIN Symbols /\ Symbols[<<"a">>] = SymbolValueOf(<<"B">>)
    /\ <<"b">> \in DOMAIN Symbols /\ Symbols[<<"b">>] = SymbolValueOf(<<"a">>)
    /\ depth = MaxDepth
    /\ svi = depth

(***************************************************************************)
(* The comparison run: v1.Equals(v2), db.Less(v1, v2) and db.Less(v2, v1)  *)
(* on two arbitrary values under an arbitrary symbol table.                *)
(***************************************************************************)
CmpNames == {<<"a">>, <<"2","0","2","0">>}

CmpDefs ==
    {StringValue(<<"5">>), NumberValue(10),
     SymbolValueOf(<<"a">>), SymbolValueOf(<<"2","0","2","0">>)}

CmpTables == UNION {[D -> CmpDefs] : D \in SUBSET CmpNames}

CmpValues ==
    {StringValue(<<"a">>), StringValue(<<"{","a","}">>), StringValue(<<"5">>),
     NumberValue(9), NumberValue(10), NumberValue(2020),
     SymbolValueOf(<<"2","0","2","0">>), SymbolValueOf(<<"a">>),
     SymbolValueOf(<<"A">>), SymbolValueOf(<<"j","a","n">>)}

InitCmp ==
    /\ Symbols \in CmpTables
    /\ v1 \in CmpValues
    /\ v2 \in CmpValues
    /\ eq = FALSE /\ lt12 = FALSE /\ lt21 = FALSE
    /\ cpc = "start"
    /\ IdleBrace /\ IdleSym /\ IdleDedup /\ IdleParse /\ IdleLex /\ IdleName /\ IdleTitle /\ IdleWord /\ IdleMin /\ IdleVon /\ IdleSplit /\ IdleDollar /\ IdleOrder /\ IdleKind /\ IdleWrite

DoCompare ==
    /\ cpc = "start"
    /\ eq' = Equals(v1, v2)
    /\ lt12' = Less(Symbols, v1, v2)
    /\ lt21' = Less(Symbols, v2, v1)
    /\ cpc' = "done"
    /\ UNCHANGED <<v1, v2, Symbols, braceVars, symVars, dedupVars, parseVars, lexVars, nameVars, titleVars, wordVars, minVars, vonVars, splitVars, dollarVars, orderVars, kindVars, writeVars>>

NextCmp == DoCompare

SpecCmp == InitCmp /\ [][NextCmp]_vars

\* C7: Equals is strictly stronger than the sort comparison: values that
\* are Equals are not Less in either direction, under any symbol table; and
\* the converse fails: Number(2020) and the undefined Symbol("2020") are
\* not Equals, yet neither is Less than the other.
C7_EqualsStronger ==
    cpc = "done" =>
        /\ eq => (~lt12 /\ ~lt21)
        /\ (v1 = NumberValue(2020) /\ v2 = SymbolValueOf(<<"2","0","2","0">>)
                /\ <<"2","0","2","0">> \notin DOMAIN Symbols)
               => (~eq /\ ~lt12 /\ ~lt21)

\* C7's case: two Equals symbols compared through a table that defines them
C7_Witness ==
    /\ cpc = "done"
    /\ v1 = SymbolValueOf(<<"a">>) /\ v2 = v1
    /\ <<"a">> \in DOMAIN Symbols
    /\ eq /\ ~lt12 /\ ~lt21

\* C7's converse case: Number(2020) against the undefined Symbol("2020")
C7_ConverseWitness ==
    /\ cpc = "done"
    /\ v1 = NumberValue(2020) /\ v2 = SymbolValueOf(<<"2","0","2","0">>)
    /\ <<"2","0","2","0">> \notin DOMAIN Symbols
    /\ ~eq /\ ~lt12 /\ ~lt21

(***************************************************************************)
(* The duplicate-engine run: doClean's RemoveContainedEntries followed by  *)
(* RemoveExactDups, and RemoveExactDups alone, on an arbitrary db.Pubs.    *)
(***************************************************************************)
\* <<Key, EntryString>> of the entries of the run
DedupHeads ==
    { <<<<"k">>, <<"f","o","o">>>>, <<<<"K">>, <<"F","o","o">>>>,
      <<<<"j">>, <<"f","o","o">>>>, <<<<"k">>, <<"b","a","r">>>> }

\* their Fields
DedupFields ==
    { (YearTag :> NumberValue(1)),
      (TitleTag :> StringValue(<<"T">>)),
      (TitleTag :> StringValue(<<"T">>)) @@ (YearTag :> NumberValue(1)),
      (TitleTag :> StringValue(<<"T">>)) @@ (YearTag :> NumberValue(2)) }

\* an entry as the parser makes it (parseEntry): Kind is toEntryKind of the
\* entry type; id stands for the identity of the *Entry
NewEntry(key, entryString, fields, ident) ==
    [Kind |-> toEntryKind(entryString), EntryString |-> entryString,
     Key |-> key, Fields |-> fields, id |-> ident]

DedupEntries == {NewEntry(h[1], h[2], f, 0) : h \in DedupHeads, f \in DedupFields}

\* db.Pubs made of the entries es, in order
PubsOf(es) == [k \in 1..Len(es) |-> [es[k] EXCEPT !.id = k]]

InitDedup ==
    /\ \E n \in 0..MaxPubs : \E es \in [1..n -> DedupEntries] : Pubs = PubsOf(es)
    /\ PubsIn = Pubs
    /\ ndel = 0
    /\ ran = <<>>
    /\ panicked = FALSE
    /\ IdleBrace /\ IdleSymbols /\ IdleSym /\ IdleCmp /\ IdleParse /\ IdleLex /\ IdleName /\ IdleTitle /\ IdleWord /\ IdleMin /\ IdleVon /\ IdleSplit /\ IdleDollar /\ IdleOrder /\ IdleKind /\ IdleWrite

\* db.RemoveContainedEntries(), first in doClean
DoRemoveContainedEntries ==
    /\ ran = <<>>
    /\ ~panicked
    /\ \E order \in Orders(BinKeys(TitleKeys(Pubs))) :
           LET st == RemoveContainedEntriesMarks(Pubs, order)
               r == removeDeleted(st.P, st.ndel)
           IN  /\ Pubs' = r.Pubs
               /\ panicked' = r.panic
               /\ ndel' = st.ndel
    /\ PubsIn' = Pubs
    /\ ran' = Append(ran, "RemoveContainedEntries")
    /\ UNCHANGED <<Symbols, braceVars, symVars, cmpVars, parseVars, lexVars, nameVars, titleVars, wordVars, minVars, vonVars, splitVars, dollarVars, orderVars, kindVars, writeVars>>

\* db.RemoveExactDups(), after RemoveContainedEntries in doClean or alone
DoRemoveExactDups ==
    /\ ran \in {<<>>, <<"RemoveContainedEntries">>}
    /\ ~panicked
    /\ \E order \in Orders(BinKeys(ExactKeys(Pubs))) :
           LET st == RemoveExactDupsMarks(Pubs, order)
               r == removeDeleted(st.P, st.ndel)
           IN  /\ Pubs' = r.Pubs
               /\ panicked' = r.panic
               /\ ndel' = st.ndel
    /\ PubsIn' = Pubs
    /\ ran' = Append(ran, "RemoveExactDups")
    /\ UNCHANGED <<Symbols, braceVars, symVars, cmpVars, parseVars, lexVars, nameVars, titleVars, wordVars, minVars, vonVars, splitVars, dollarVars, orderVars, kindVars, writeVars>>

NextDedup == DoRemoveContainedEntries \/ DoRemoveExactDups

SpecDedup == InitDedup /\ [][NextDedup]_vars

\* the last pass called, and whether it has returned
LastPass == IF ran = <<>> THEN "none" ELSE ran[Len(ran)]
Returned(pass) == LastPass = pass /\ ~panicked

Ids(P) == {P[k].id : k \in 1..Len(P)}
EntryOf(P, ident) == P[CHOOSE k \in 1..Len(P) : P[k].id = ident]

\* the duplicate class of the claim: same case-insensitive Key, same Kind
\* and entry type, the same tags with the same values
SameFields(e1, e2) ==
    /\ DOMAIN e1.Fields = DOMAIN e2.Fields
    /\ \A tag \in DOMAIN e1.Fields : e1.Fields[tag] = e2.Fields[tag]

ExactDup(e1, e2) ==
    /\ ToLower(e1.Key) = ToLower(e2.Key)
    /\ e1.Kind = e2.Kind
    /\ ToLower(e1.EntryString) = ToLower(e2.EntryString)
    /\ SameFields(e1, e2)

\* C2: RemoveExactDups returns on every db.Pubs; every class of entries with
\* the same case-insensitive Key that are pairwise Equals has exactly one
\* member left (so an entry that has no duplicate is still present), and the
\* survivors are in their former relative order.
C2_RemoveExactDups ==
    LastPass = "RemoveExactDups" =>
        /\ ~panicked
        /\ \A k \in 1..Len(PubsIn) :
               Cardinality({x \in 1..Len(Pubs) : Pubs[x].id \in Ids(PubsIn)
                                /\ ExactDup(PubsIn[k], EntryOf(PubsIn, Pubs[x].id))}) = 1
        /\ Pubs = SelectSeq(PubsIn, LAMBDA e : e.id \in Ids(Pubs))

\* C2's case: a class of three duplicates, keys differing in case, and an
\* entry that is Equals to them under another key
C2_Witness ==
    /\ ran = <<"RemoveExactDups">> /\ ~panicked
    /\ Len(PubsIn) = 3 /\ Len(Pubs) = 2
    /\ ExactDup(PubsIn[1], PubsIn[3])
    /\ PubsIn[1].Key # PubsIn[3].Key
    /\ SameFields(PubsIn[1], PubsIn[2]) /\ ~ExactDup(PubsIn[1], PubsIn[2])
\* every field of e1 is a field of e2 with the same value
FieldsWithin(e1, e2) ==
    /\ DOMAIN e1.Fields \subseteq DOMAIN e2.Fields
    /\ \A tag \in DOMAIN e1.Fields : e1.Fields[tag] = e2.Fields[tag]

HasStringTitle(e) == TitleTag \in DOMAIN e.Fields /\ e.Fields[TitleTag].T = StringType

\* e1 is a subset of e2 as section 4.6 defines it: same Kind, the same
\* entry type up to case, every field of e1 in e2 with the same value
Contained(e1, e2) ==
    /\ e1.Kind = e2.Kind
    /\ ToLower(e1.EntryString) = ToLower(e2.EntryString)
    /\ FieldsWithin(e1, e2)

\* the case of C3: A and B have the same String title and A's fields are a
\* strict subset of B's
StrictlyWithin(A, B) ==
    /\ HasStringTitle(A)
    /\ FieldsWithin(A, B)
    /\ DOMAIN A.Fields # DOMAIN B.Fields

Survives(e) == e.id \in Ids(Pubs)

\* C3 as stated: whenever RemoveContainedEntries returns, every entry A
\* that has the same Kind and String title as an entry B, and fields that
\* are a strict subset of B's, is gone from Pubs, and B is still there
\* unless B is a subset of another entry, whatever the order of A and B.
C3_Original ==
    Returned("RemoveContainedEntries") =>
        \A a, b \in 1..Len(PubsIn) :
            (a # b /\ PubsIn[a].Kind = PubsIn[b].Kind /\ StrictlyWithin(PubsIn[a], PubsIn[b]))
                => /\ ~Survives(PubsIn[a])
                   /\ \/ Survives(PubsIn[b])
                      \/ \E c \in 1..Len(PubsIn) :
                             /\ c # b
                             /\ PubsIn[b].Kind = PubsIn[c].Kind
                             /\ FieldsWithin(PubsIn[b], PubsIn[c])

\* C3 as amended: the same, for A and B that have the same Kind and the
\* same entry type (EntryString) up to letter case.
C3_Amended ==
    Returned("RemoveContainedEntries") =>
        \A a, b \in 1..Len(PubsIn) :
            (a # b /\ PubsIn[a].Kind = PubsIn[b].Kind
                 /\ ToLower(PubsIn[a].EntryString) = ToLower(PubsIn[b].EntryString)
                 /\ StrictlyWithin(PubsIn[a], PubsIn[b]))
                => /\ ~Survives(PubsIn[a])
                   /\ \/ Survives(PubsIn[b])
                      \/ \E c \in 1..Len(PubsIn) : c # b /\ Contained(PubsIn[b], PubsIn[c])

\* C3's case: A = {title} follows B = {title, year} in Pubs, a third entry
\* is there, and the pass has removed A and kept B
C3_Witness ==
    /\ Returned("RemoveContainedEntries")
    /\ Len(PubsIn) = 3
    /\ Contained(PubsIn[3], PubsIn[1]) /\ StrictlyWithin(PubsIn[3], PubsIn[1])
    /\ PubsIn[3].EntryString # PubsIn[1].EntryString
    /\ ~Survives(PubsIn[3]) /\ Survives(PubsIn[1])

\* C4: after RemoveContainedEntries and RemoveExactDups no surviving entry
\* is a subset of a different surviving entry, whichever pair of the whole
\* set it is (same title or not, same key or not).
C4_NoSubsetSurvives ==
    (ran = <<"RemoveContainedEntries", "RemoveExactDups">> /\ ~panicked) =>
        \A a, b \in 1..Len(Pubs) : a # b => ~Contained(Pubs[a], Pubs[b])

\* C4's case in particular: A and B have the same key and A has no title
C4_SameKeyNoTitle ==
    (ran = <<"RemoveContainedEntries", "RemoveExactDups">> /\ ~panicked) =>
        \A a, b \in 1..Len(Pubs) :
            (a # b /\ ToLower(Pubs[a].Key) = ToLower(Pubs[b].Key)
                 /\ TitleTag \notin DOMAIN Pubs[a].Fields)
                => ~Contained(Pubs[a], Pubs[b])

(***************************************************************************)
(* SpecParse: NewParser(f).ParseBibTeX() on an input, one iteration of     *)
(* ParseBibTeX's loop per step.  The inputs are all short character        *)
(* strings, single entries written from tag = value pairs, and a malformed *)
(* unit followed by an entry.                                              *)
(***************************************************************************)
ParseAlphabet == {"@", "a", "{", "}", ",", "=", "\"", " "}

RawInputs == StringsUpTo(ParseAlphabet, MaxInput)

\* a unit given by its text alone
Raw(text) ==
    [kind |-> "raw", text |-> text, etype |-> <<>>, key |-> <<>>, pairs |-> <<>>,
     sep |-> <<>>, trail |-> FALSE, delim |-> <<>>]

\* tag = value pairs: the tag, the text of the value, and the Value it denotes
Pair(tag, text, value) == [tag |-> tag, text |-> text, value |-> value]

PairTags == {<<"t">>, <<"T">>, <<"u">>}

PairValues ==
    { <<<<"1">>, NumberValue(1)>>,
      <<<<"x">>, SymbolValueOf(<<"x">>)>>,
      <<<<"\"", "s", "\"">>, StringValue(<<"s">>)>>,
      <<<<"{", "b", "}">>, StringValue(<<"b">>)>> }

PairChoices == {Pair(tg, v[1], v[2]) : tg \in PairTags, v \in PairValues}

\* what stands between two pairs, and the delimiters of an entry
Separators == {<<",">>, <<" ">>}
Delimiters == {<<"{", "}">>, <<"(", ")">>}

\* tag = value, tag = value, ... with sep between the pairs
RECURSIVE PairsText(_, _, _)
PairsText(pairs, sep, trail) ==
    IF pairs = <<>> THEN <<>>
    ELSE Head(pairs).tag \o <<"=">> \o Head(pairs).text
         \o (IF Len(pairs) > 1 THEN sep ELSE IF trail THEN <<",">> ELSE <<>>)
         \o PairsText(Tail(pairs), sep, trail)

\* @etype{key, tag = value, ...}
EntryUnit(etype, key, pairs, sep, trail, delim) ==
    [kind |-> "entry",
     text |-> <<"@">> \o etype \o <<delim[1]>> \o key \o <<",">>
              \o PairsText(pairs, sep, trail) \o <<delim[2]>>,
     etype |-> etype, key |-> key, pairs |-> pairs,
     sep |-> sep, trail |-> trail, delim |-> delim]

\* @string{tag = value, ...}
StringUnit(pairs, sep, trail, delim) ==
    [kind |-> "string",
     text |-> <<"@","s","t","r","i","n","g">> \o <<delim[1]>>
              \o PairsText(pairs, sep, trail) \o <<delim[2]>>,
     etype |-> <<"s","t","r","i","n","g">>, key |-> <<>>, pairs |-> pairs,
     sep |-> sep, trail |-> trail, delim |-> delim]

\* units that are not well-formed, each ending before the next unit starts
MalformedUnits ==
    { <<"@","p","r","e","a","m","b","l","e"," ","x"," ">>,
      <<"@","a","{","k"," ","t","=","1","}"," ">>,
      <<"@","a","{","k",",","t","=","}"," ">>,
      <<"@","a"," ","k",",","t","=","1","}"," ">>,
      <<"@"," ">> }

\* the well-formed entries that follow them
RecoveryEntries ==
    {EntryUnit(<<"a">>, <<"k">>, <<pr>>, <<",">>, FALSE, <<"{", "}">>) : pr \in PairChoices}

TextOf(us) == Join([k \in 1..Len(us) |-> us[k].text])

InitParse ==
    /\ \/ \E str \in RawInputs : units = <<Raw(str)>>
       \/ \E n \in 0..MaxPairs : \E ps \in [1..n -> PairChoices] :
            \E sep \in Separators, trail \in BOOLEAN, delim \in Delimiters :
                \/ units = <<EntryUnit(<<"a">>, <<"k">>, ps, sep, trail, delim)>>
                \/ units = <<StringUnit(ps, sep, trail, delim)>>
       \/ \E bad \in MalformedUnits, good \in RecoveryEntries : units = <<Raw(bad), good>>
    /\ input = TextOf(units)
    /\ parser = NoParser
    /\ database = NewDatabase
    /\ ppc = "start"
    /\ IdleBrace /\ IdleSymbols /\ IdleSym /\ IdleCmp /\ IdleDedup /\ IdleLex /\ IdleName /\ IdleTitle /\ IdleWord /\ IdleMin /\ IdleVon /\ IdleSplit /\ IdleDollar /\ IdleOrder /\ IdleKind /\ IdleWrite

\* p := NewParser(f)
DoNewParser ==
    /\ ppc = "start"
    /\ parser' = NewParser(input)
    /\ ppc' = "created"
    /\ UNCHANGED <<input, units, database, Symbols, braceVars, symVars, cmpVars, dedupVars, lexVars, nameVars, titleVars, wordVars, minVars, vonVars, splitVars, dollarVars, orderVars, kindVars, writeVars>>

\* p.ParseBibTeX() up to its loop
ParseBegin ==
    /\ ppc = "created"
    /\ parser' = [parser EXCEPT !.bracesAsString = FALSE]
    /\ database' = NewDatabase
    /\ ppc' = "loop"
    /\ UNCHANGED <<input, units, Symbols, braceVars, symVars, cmpVars, dedupVars, lexVars, nameVars, titleVars, wordVars, minVars, vonVars, splitVars, dollarVars, orderVars, kindVars, writeVars>>

\* the loop condition p.curTokenIs(EOF) dereferences a nil curToken
ParsePanic ==
    /\ ppc = "loop"
    /\ parser.curToken = NilToken
    /\ ppc' = "panic"
    /\ UNCHANGED <<input, units, parser, database, Symbols, braceVars, symVars, cmpVars, dedupVars, lexVars, nameVars, titleVars, wordVars, minVars, vonVars, splitVars, dollarVars, orderVars, kindVars, writeVars>>

\* one iteration of the loop
ParseStep ==
    /\ ppc = "loop"
    /\ parser.curToken # NilToken
    /\ parser.curToken.Type # EOF
    /\ LET r == ParseIteration(input, parser, database)
       IN  parser' = r.p /\ database' = r.db
    /\ UNCHANGED <<input, units, ppc, Symbols, braceVars, symVars, cmpVars, dedupVars, lexVars, nameVars, titleVars, wordVars, minVars, vonVars, splitVars, dollarVars, orderVars, kindVars, writeVars>>

\* return database
ParseReturn ==
    /\ ppc = "loop"
    /\ parser.curToken # NilToken
    /\ parser.curToken.Type = EOF
    /\ ppc' = "done"
    /\ UNCHANGED <<input, units, parser, database, Symbols, braceVars, symVars, cmpVars, dedupVars, lexVars, nameVars, titleVars, wordVars, minVars, vonVars, splitVars, dollarVars, orderVars, kindVars, writeVars>>

NextParse == DoNewParser \/ ParseBegin \/ ParsePanic \/ ParseStep \/ ParseReturn

SpecParse == InitParse /\ [][NextParse]_vars

\* the unit the input was written from, when it is a single entry
SingleEntry == Len(units) = 1 /\ units[1].kind = "entry"

\* the index of the first pair of ps whose tag is, lower-cased, that of ps[k]
FirstOccurrence(ps, k) ==
    CHOOSE j \in 1..k :
        /\ ToLower(ps[j].tag) = ToLower(ps[k].tag)
        /\ \A i \in 1..(j - 1) : ToLower(ps[i].tag) # ToLower(ps[k].tag)

\* the index of the last such pair
LastOccurrence(ps, k) ==
    CHOOSE j \in k..Len(ps) :
        /\ ToLower(ps[j].tag) = ToLower(ps[k].tag)
        /\ \A i \in (j + 1)..Len(ps) : ToLower(ps[i].tag) # ToLower(ps[k].tag)

HasDuplicateTag(ps) ==
    \E j, k \in 1..Len(ps) : j < k /\ ToLower(ps[j].tag) = ToLower(ps[k].tag)

\* C8: NewParser followed by ParseBibTeX never fails at run time, whatever
\* the input is: ParseBibTeX never dereferences a nil token.
C8_NeverAborts == ppc # "panic"

\* C9: when a malformed unit precedes a well-formed entry, the parser has
\* recorded an error and the Database is the one the entry alone parses to;
\* and bracesAsString is false whenever the loop of ParseBibTeX is at the
\* "@" that starts a unit.
C9_Recovery ==
    /\ ppc = "loop" /\ parser.curToken.Type = AT => ~parser.bracesAsString
    /\ ppc = "done" /\ Len(units) = 2 /\ units[1].text \in MalformedUnits =>
          /\ parser.errors # <<>>
          /\ database = ParseBibTeX(units[2].text)

\* C10: in the Entry parsed from an entry, every tag maps to the value of
\* the first pair that has this tag (compared after lower-casing).
C10_FirstKept ==
    ppc = "done" /\ SingleEntry /\ Len(database.Pubs) = 1 =>
        LET ps == units[1].pairs
            Fields == database.Pubs[1].Fields
        IN  \A k \in 1..Len(ps) :
                /\ ToLower(ps[k].tag) \in DOMAIN Fields
                /\ Fields[ToLower(ps[k].tag)] = ps[FirstOccurrence(ps, k)].value

\* the unit the input was written from, when it is a single @string
SingleString == Len(units) = 1 /\ units[1].kind = "string"

Braces == <<"{", "}">>
Parens == <<"(", ")">>

\* C11: an @string written with braces that defines n >= 1 symbols of
\* different names puts all n of them into Symbols under their lower-cased
\* names and records no error; an error is recorded only for n = 0.
C11_MultiString ==
    ppc = "done" /\ SingleString /\ units[1].delim = Braces
                 /\ ~HasDuplicateTag(units[1].pairs) =>
        LET ps == units[1].pairs
        IN  /\ Len(ps) >= 1 =>
                /\ parser.errors = <<>>
                /\ DOMAIN database.Symbols = {ToLower(ps[k].tag) : k \in 1..Len(ps)}
                /\ \A k \in 1..Len(ps) : database.Symbols[ToLower(ps[k].tag)] = ps[k].value
            /\ parser.errors # <<>> => Len(ps) = 0

\* the entry of units[1] written with a comma between the pairs, none after
\* the last one, and braces around it
CanonicalEntry ==
    EntryUnit(units[1].etype, units[1].key, units[1].pairs, <<",">>, FALSE, Braces)

LexStreams == StringsUpTo(ParseAlphabet, MaxInput)

TrailingSpace == <<" ">>

\* the calls so far have returned the EOF token
AtEOF(ts) == ts # <<>> /\ ts[Len(ts)].tok = EOFToken

\* what NextToken returned: (token, error)
TokenOrError(r) == [tok |-> r.tok, err |-> r.err]

InitLex ==
    /\ stream \in LexStreams
    /\ lexer = NoLexer /\ toks = <<>>
    /\ lexerW = NoLexer /\ toksW = <<>>
    /\ lpc = "new"
    /\ IdleBrace /\ IdleSymbols /\ IdleSym /\ IdleCmp /\ IdleDedup /\ IdleParse /\ IdleName /\ IdleTitle /\ IdleWord /\ IdleMin /\ IdleVon /\ IdleSplit /\ IdleDollar /\ IdleOrder /\ IdleKind /\ IdleWrite

\* l := lexer.New(f)
DoNewLexer ==
    /\ lpc = "new"
    /\ lexer' = NewLexer(stream)
    /\ lexerW' = NewLexer(stream \o TrailingSpace)
    /\ lpc' = "lex"
    /\ UNCHANGED <<stream, toks, toksW, Symbols, braceVars, symVars, cmpVars, dedupVars, parseVars, nameVars, titleVars, wordVars, minVars, vonVars, splitVars, dollarVars, orderVars, kindVars, writeVars>>

\* l.NextToken(braceStrings), on each lexer that has not returned EOF yet
DoNextToken ==
    /\ lpc = "lex"
    /\ ~AtEOF(toks) \/ ~AtEOF(toksW)
    /\ \E braceStrings \in BOOLEAN :
         /\ IF AtEOF(toks) THEN UNCHANGED <<lexer, toks, nameVars, titleVars, wordVars, minVars, vonVars, splitVars, dollarVars, orderVars, kindVars, writeVars>>
            ELSE \E r \in {NextToken(stream, lexer, braceStrings)} :
                    lexer' = r.l /\ toks' = Append(toks, TokenOrError(r))
         /\ IF AtEOF(toksW) THEN UNCHANGED <<lexerW, toksW, nameVars, titleVars, wordVars, minVars, vonVars, splitVars, dollarVars, orderVars, kindVars, writeVars>>
            ELSE \E r \in {NextToken(stream \o TrailingSpace, lexerW, braceStrings)} :
                    lexerW' = r.l /\ toksW' = Append(toksW, TokenOrError(r))
    /\ UNCHANGED <<stream, lpc, Symbols, braceVars, symVars, cmpVars, dedupVars, parseVars, nameVars, titleVars, wordVars, minVars, vonVars, splitVars, dollarVars, orderVars, kindVars, writeVars>>

NextLex == DoNewLexer \/ DoNextToken

SpecLex == InitLex /\ [][NextLex]_vars

\* the tokens and errors of ts without their positions
TypesAndLiterals(ts) ==
    [k \in 1..Len(ts) |-> [Type |-> ts[k].tok.Type, Literal |-> ts[k].tok.Literal, err |-> ts[k].err]]

\* C13: once both lexers have returned EOF, the stream and the stream
\* followed by whitespace have given the same results call by call: the same
\* tokens (types and literals), and an error only where the other has one.
C13_EndOfInput ==
    AtEOF(toks) /\ AtEOF(toksW) => TypesAndLiterals(toks) = TypesAndLiterals(toksW)

\* the unit u written with braces in place of its delimiters
WithBraces(u) ==
    IF u.kind = "string"
    THEN StringUnit(u.pairs, u.sep, u.trail, Braces)
    ELSE EntryUnit(u.etype, u.key, u.pairs, u.sep, u.trail, Braces)

\* C14: an entry or an @string written with ( ... ) parses to the Database
\* (the Entry, or the symbol definition) that the same text with { ... }
\* parses to, whatever its last value is.
C14_Parentheses ==
    ppc = "done" /\ (SingleEntry \/ SingleString) /\ units[1].delim = Parens =>
        database = ParseBibTeX(WithBraces(units[1]).text)

(***************************************************************************)
(* SpecName: a := NormalizeName(name), then a.String(), then               *)
(* NormalizeName of that string.                                           *)
(***************************************************************************)
NameAlphabet == {"M", "v", ",", " ", "{", "}", "\""}

\* the names of the package's tests, and the placeholder
TestNames ==
    { <<"v","o","n"," ","d","e"," ","M","o","o",","," ","J","r",".",","," ","H","e","n","r","y">>,
      <<"H","e","n","r","y"," ","v","o","n"," ","d","e"," ","M","o","o">>,
      <<"S","m","a","r","t"," ","J",".","H",".">>,
      <<"O","t","h","e","r","s">>,
      <<","," ","H","e","n","r","y">>,
      <<"M","o","o",","," ","J","r",",">> }

InitName ==
    /\ nameIn \in StringsUpTo(NameAlphabet, MaxName) \cup TestNames
    /\ author = NilAuthor
    /\ nameStr = <<>>
    /\ author2 = NilAuthor
    /\ npc = "start"
    /\ IdleBrace /\ IdleSymbols /\ IdleSym /\ IdleCmp /\ IdleDedup /\ IdleParse /\ IdleLex /\ IdleTitle /\ IdleWord /\ IdleMin /\ IdleVon /\ IdleSplit /\ IdleDollar /\ IdleOrder /\ IdleKind /\ IdleWrite

\* a := NormalizeName(name)
DoNormalizeName ==
    /\ npc = "start"
    /\ author' = NormalizeName(nameIn)
    /\ npc' = "parsed"
    /\ UNCHANGED <<nameIn, nameStr, author2, Symbols, braceVars, symVars, cmpVars, dedupVars,
                   parseVars, lexVars, titleVars, wordVars, minVars, vonVars, splitVars, dollarVars, orderVars, kindVars, writeVars>>

\* a.String()
DoAuthorString ==
    /\ npc = "parsed"
    /\ author.res = "author"
    /\ nameStr' = AuthorString(author.a)
    /\ npc' = "printed"
    /\ UNCHANGED <<nameIn, author, author2, Symbols, braceVars, symVars, cmpVars, dedupVars,
                   parseVars, lexVars, titleVars, wordVars, minVars, vonVars, splitVars, dollarVars, orderVars, kindVars, writeVars>>

\* NormalizeName(a.String())
DoNormalizeAgain ==
    /\ npc = "printed"
    /\ author2' = NormalizeName(nameStr)
    /\ npc' = "reparsed"
    /\ UNCHANGED <<nameIn, author, nameStr, Symbols, braceVars, symVars, cmpVars, dedupVars,
                   parseVars, lexVars, titleVars, wordVars, minVars, vonVars, splitVars, dollarVars, orderVars, kindVars, writeVars>>

NextName == DoNormalizeName \/ DoAuthorString \/ DoNormalizeAgain

SpecName == InitName /\ [][NextName]_vars

\* C15: NormalizeName of the String() of an Author that NormalizeName
\* returned gives that Author again: Others, First, Von, Last and Jr agree.
C15_AuthorRoundTrip ==
    npc = "reparsed" => author2 = author

\* the top-level comma-separated parts of a name, as NormalizeName splits it
TopLevelParts(str) == splitOnTopLevelString(TrimSpace(str), <<",">>, FALSE)

\* C16: NormalizeName never fails at run time; a name with more than three
\* top-level comma-separated parts gives nil; every Author it returns that
\* is not the "others" placeholder has a non-empty Last.
C16_NormalizeNameTotal ==
    npc = "parsed" =>
        /\ author.res # "panic"
        /\ Len(TopLevelParts(nameIn)) > 3 => author.res = "nil"
        /\ author.res = "author" /\ ~author.a.Others => author.a.Last # <<>>

(***************************************************************************)
(* SpecTitle: a database of two entries with the same title; the title of  *)
(* the second is changed in one of the ways that a fingerprint ignores,    *)
(* then FindDupsByTitle runs.                                              *)
(***************************************************************************)
TitleAlphabet == {"a", "T", "o", "1", "{", "}", " "}

\* characters that are neither letters nor whitespace
NonLetters == {"1", ",", "!", "{", "}"}

\* the stop words short enough to be written over TitleAlphabet
ShortStopWords == { w \in tlw : \A k \in 1..Len(w) : w[k] \in {"a", "t", "o"} }

\* the titles of the example
QuickBrownFox1 ==
    <<"T","h","e"," ","Q","u","i","c","k",","," ","B","r","o","w","n"," ","F","o","x","!">>
QuickBrownFox2 ==
    <<"Q","u","i","c","k"," ","B","r","o","w","n"," ","f","o","x">>

TitleEntry(ident, fields) ==
    [Kind |-> "article", EntryString |-> <<"a">>, Key |-> <<"k">>, Fields |-> fields, id |-> ident]

WithTitle(ident, v) == TitleEntry(ident, TitleTag :> v)

\* the title values an entry starts with: strings, a number, a symbol
TitleValues ==
    { StringValue(str) : str \in StringsUpTo(TitleAlphabet, MaxTitle) }
        \cup { NumberValue(1), SymbolValueOf(<<"a">>) }

InitTitle ==
    /\ \/ /\ \E v \in TitleValues : titlePubs = <<WithTitle(1, v), WithTitle(2, v)>>
          /\ tpc = "start"
       \/ /\ titlePubs = <<TitleEntry(1, <<>>), TitleEntry(2, <<>>)>>
          /\ tpc = "start"
       \/ /\ titlePubs = <<WithTitle(1, StringValue(QuickBrownFox1)),
                           WithTitle(2, StringValue(QuickBrownFox2))>>
          /\ tpc = "edited"
    /\ thash = <<>>
    /\ H = <<>>
    /\ IdleBrace /\ IdleSymbols /\ IdleSym /\ IdleCmp /\ IdleDedup /\ IdleParse /\ IdleLex /\ IdleName /\ IdleWord /\ IdleMin /\ IdleVon /\ IdleSplit /\ IdleDollar /\ IdleOrder /\ IdleKind /\ IdleWrite

Title2 == titlePubs[2].Fields[TitleTag].S

CanEdit ==
    /\ tpc = "start"
    /\ TitleTag \in DOMAIN titlePubs[2].Fields
    /\ titlePubs[2].Fields[TitleTag].T = StringType

SetTitle2(str) ==
    /\ titlePubs' = [titlePubs EXCEPT ![2].Fields = TitleTag :> StringValue(str)]
    /\ tpc' = "edited"
    /\ UNCHANGED <<thash, H, Symbols, braceVars, symVars, cmpVars, dedupVars, parseVars,
                   lexVars, nameVars, wordVars, minVars, vonVars, splitVars, dollarVars, orderVars, kindVars, writeVars>>

InsertAt(str, i, w) == SubSeq(str, 1, i) \o w \o SubSeq(str, i + 1, Len(str))
DeleteAt(str, i, n) == SubSeq(str, 1, i - 1) \o SubSeq(str, i + n, Len(str))

SwapCase(c) ==
    IF IsIn(UpperChars, c) THEN ToLowerChar(c) ELSE UpperChars[IndexIn(LowerChars, c)]

\* the second title differs in the case of one letter
EditCase ==
    /\ CanEdit
    /\ \E i \in 1..Len(Title2) :
          /\ IsLetter(Title2[i])
          /\ SetTitle2([Title2 EXCEPT ![i] = SwapCase(@)])

\* the second title has one more character that is neither letter nor whitespace
EditInsertNonLetter ==
    /\ CanEdit
    /\ \E i \in 0..Len(Title2), c \in NonLetters : SetTitle2(InsertAt(Title2, i, <<c>>))

\* the second title has one such character less
EditDeleteNonLetter ==
    /\ CanEdit
    /\ \E i \in 1..Len(Title2) :
          /\ Title2[i] \in NonLetters
          /\ SetTitle2(DeleteAt(Title2, i, 1))

\* position i (0..Len) of str is at an end of str or next to whitespace
AtSpace(str, i) ==
    \/ i = 0
    \/ i = Len(str)
    \/ i >= 1 /\ IsSpace(str[i])
    \/ i < Len(str) /\ IsSpace(str[i + 1])

\* the second title has more whitespace at a place that has some, or at an end
EditInsertSpace ==
    /\ CanEdit
    /\ \E i \in 0..Len(Title2) :
          /\ AtSpace(Title2, i)
          /\ SetTitle2(InsertAt(Title2, i, <<" ">>))

\* the second title has less whitespace at a place that keeps some, or at an end
EditDeleteSpace ==
    /\ CanEdit
    /\ \E i \in 1..Len(Title2) :
          /\ IsSpace(Title2[i])
          /\ AtSpace(DeleteAt(Title2, i, 1), i - 1)
          /\ SetTitle2(DeleteAt(Title2, i, 1))

\* position i (0..Len) of str is between two words: at an end or after whitespace
WordStart(str, i) == IF i = 0 THEN TRUE ELSE IsSpace(str[i])

\* the second title has one more occurrence of a stop word
EditInsertStopWord ==
    /\ CanEdit
    /\ \E w \in ShortStopWords :
          \/ \E i \in 0..Len(Title2) :
                /\ WordStart(Title2, i)
                /\ SetTitle2(InsertAt(Title2, i, w \o <<" ">>))
          \/ SetTitle2(Title2 \o <<" ">> \o w)

\* the second title has one occurrence of a stop word less: the word that
\* starts at i and the whitespace character after it
EditDeleteStopWord ==
    /\ CanEdit
    /\ \E i \in 1..Len(Title2), n \in 1..MaxTitle :
          /\ i + n <= Len(Title2)
          /\ WordStart(Title2, i - 1)
          /\ IsSpace(Title2[i + n])
          /\ ToLower(SubSeq(Title2, i, i + n - 1)) \in tlw
          /\ SetTitle2(DeleteAt(Title2, i, n + 1))

\* db.FindDupsByTitle()
DoFindDupsByTitle ==
    /\ tpc \in {"start", "edited"}
    /\ LET r == FindDupsByTitle(titlePubs)
       IN  /\ H' = r.H
           /\ thash' = r.hashes
    /\ tpc' = "done"
    /\ UNCHANGED <<titlePubs, Symbols, braceVars, symVars, cmpVars, dedupVars, parseVars,
                   lexVars, nameVars, wordVars, minVars, vonVars, splitVars, dollarVars, orderVars, kindVars, writeVars>>

NextTitle ==
    \/ EditCase
    \/ EditInsertNonLetter
    \/ EditDeleteNonLetter
    \/ EditInsertSpace
    \/ EditDeleteSpace
    \/ EditInsertStopWord
    \/ EditDeleteStopWord
    \/ DoFindDupsByTitle

SpecTitle == InitTitle /\ [][NextTitle]_vars

\* the two entries are in the same group of H
SameGroup ==
    \E hash \in DOMAIN H :
        \E j, k \in 1..Len(H[hash]) : H[hash][j] = 1 /\ H[hash][k] = 2

\* what C17 says of the fingerprints once FindDupsByTitle has returned
FingerprintsAgree ==
    /\ thash[1] = thash[2]
    /\ SameGroup
    /\ \A k \in 1..2 : ~HasStringTitle(titlePubs[k]) => thash[k] = <<>>
    /\ titlePubs[1].Fields = TitleTag :> StringValue(QuickBrownFox1)
           => thash[1] = <<"q","u","i","c","k"," ","b","r","o","w","n"," ","f","o","x">>

\* C17 as stated: two String titles that differ only in letter case, in
\* characters that are neither letters nor whitespace (braces included), in
\* the amount of whitespace and in occurrences of stop words have the same
\* titleHash and are in the same group of FindDupsByTitle; an entry without
\* a String title has the empty fingerprint.
C17_Original ==
    tpc = "done" => FingerprintsAgree

\* ParseBraceTree consumes the whole title of every entry with a String title
TitlesParseWhole ==
    \A k \in 1..2 :
        HasStringTitle(titlePubs[k]) => ParsesWhole(titlePubs[k].Fields[TitleTag].S)

\* C17 as amended: the same for two String titles that ParseBraceTree
\* consumes whole (no closing brace without its opening brace before the
\* last character); a String title that it does not consume whole has the
\* empty fingerprint, like an entry without a String title.
C17_Amended ==
    tpc = "done" =>
        /\ TitlesParseWhole => FingerprintsAgree
        /\ \A k \in 1..2 :
              ~(HasStringTitle(titlePubs[k]) /\ ParsesWhole(titlePubs[k].Fields[TitleTag].S))
                  => thash[k] = <<>>

\* C17's case: the titles differ, both are consumed whole, and the common
\* fingerprint is not empty
C17_Witness ==
    /\ tpc = "done"
    /\ HasStringTitle(titlePubs[1])
    /\ titlePubs[1].Fields # titlePubs[2].Fields
    /\ TitlesParseWhole
    /\ thash[1] # <<>>
    /\ thash[1] = thash[2]

(***************************************************************************)
(* SpecWord: IsStrangeCase(wordIn).                                        *)
(***************************************************************************)
WordAlphabet == {"m", "R", "-", "(", "$"}

\* the words of the package's test and of the README
TestWords ==
    { <<"m","R","N","A">>, <<"n","O","W">>,
      <<"H","y","p","h","e","n","a","t","e","d","-","W","o","r","d">>,
      <<"(","S","t","r","a","n","g","e">>,
      <<"(","W","h","o","l","e","-","G","e","n","o","m","e">> }

InitWord ==
    /\ wordIn \in StringsUpTo(WordAlphabet, MaxWord) \cup TestWords
    /\ strange = FALSE
    /\ wpc = "start"
    /\ IdleBrace /\ IdleSymbols /\ IdleSym /\ IdleCmp /\ IdleDedup /\ IdleParse /\ IdleLex /\ IdleName /\ IdleTitle /\ IdleMin /\ IdleVon /\ IdleSplit /\ IdleDollar /\ IdleOrder /\ IdleKind /\ IdleWrite

\* IsStrangeCase(wordIn)
DoIsStrangeCase ==
    /\ wpc = "start"
    /\ strange' = IsStrangeCase(wordIn)
    /\ wpc' = "done"
    /\ UNCHANGED <<wordIn, Symbols, braceVars, symVars, cmpVars, dedupVars, parseVars, lexVars,
                   nameVars, titleVars, minVars, vonVars, splitVars, dollarVars, orderVars, kindVars, writeVars>>

NextWord == DoIsStrangeCase

SpecWord == InitWord /\ [][NextWord]_vars

\* str has an upper-case letter after its first character that is not
\* punctuation, and the character just before that letter is not a hyphen
CapitalInside(str) ==
    \E i \in 1..Len(str) :
        /\ IsUpper(str[i])
        /\ \E j \in 1..(i - 1) : ~IsPunct(str[j])
        /\ str[i - 1] # "-"

\* C18: IsStrangeCase(word) is true iff the word has an upper-case letter at a
\* position after its first non-punctuation character that is not
\* immediately preceded by a hyphen; "mRNA" and "nOW" are strange-case,
\* "Hyphenated-Word" and "(Strange" are not.
C18_StrangeCase ==
    wpc = "done" =>
        /\ strange = CapitalInside(wordIn)
        /\ wordIn \in {<<"m","R","N","A">>, <<"n","O","W">>} => strange
        /\ wordIn \in {<<"H","y","p","h","e","n","a","t","e","d","-","W","o","r","d">>,
                     <<"(","S","t","r","a","n","g","e">>} => ~strange

\* C18's case: a word with a capital after a hyphen and one elsewhere inside
C18_Witness ==
    /\ wpc = "done"
    /\ strange
    /\ \E i \in 2..Len(wordIn) : IsUpper(wordIn[i]) /\ wordIn[i - 1] = "-"

(***************************************************************************)
(* SpecMin: bn, size := ParseBraceTree(minS), then bn.FlattenToMinBraces() *)
(* as ConvertTitlesToMinBraces calls them.                                 *)
(***************************************************************************)
MinAlphabet == {"m", "R", "\"", " ", "{", "}"}

\* strings of the package's test, the README and the doc comments
TestTitles ==
    { <<"f","o","o","{","b","a","r","}"," ","m","R","N","A">>,
      <<"N","o","w"," ","i","s"," ","m","R","N","A"," "," ","t","i","m","e">>,
      <<"{","f","o","o"," ","m","R","N","A","}">> }

InitMin ==
    /\ minS \in StringsUpTo(MinAlphabet, MaxMin) \cup TestTitles
    /\ minTree = NoNode
    /\ minSize = 0
    /\ minOut = <<>>
    /\ mpc = "start"
    /\ IdleBrace /\ IdleSymbols /\ IdleSym /\ IdleCmp /\ IdleDedup /\ IdleParse /\ IdleLex /\ IdleName /\ IdleTitle /\ IdleWord /\ IdleVon /\ IdleSplit /\ IdleDollar /\ IdleOrder /\ IdleKind /\ IdleWrite

\* bn, size := ParseBraceTree(v.S)
DoParseMin ==
    /\ mpc = "start"
    /\ LET r == ParseBraceTree(minS)
       IN  /\ minTree' = r.node
           /\ minSize' = r.n
    /\ mpc' = "parsed"
    /\ UNCHANGED <<minS, minOut, Symbols, braceVars, symVars, cmpVars, dedupVars, parseVars,
                   lexVars, nameVars, titleVars, wordVars, vonVars, splitVars, dollarVars, orderVars, kindVars, writeVars>>

\* v.S = bn.FlattenToMinBraces(), when size == len(v.S)
DoFlattenToMinBraces ==
    /\ mpc = "parsed"
    /\ minSize = Len(minS)
    /\ minOut' = FlattenToMinBraces(minTree)
    /\ mpc' = "done"
    /\ UNCHANGED <<minS, minTree, minSize, Symbols, braceVars, symVars, cmpVars, dedupVars,
                   parseVars, lexVars, nameVars, titleVars, wordVars, vonVars, splitVars, dollarVars, orderVars, kindVars, writeVars>>

NextMin == DoParseMin \/ DoFlattenToMinBraces

SpecMin == InitMin /\ [][NextMin]_vars

IsBrace(c) == c \in {"{", "}"}

BraceFree(str) == \A k \in 1..Len(str) : ~IsBrace(str[k])

\* the brace depth of str after its first k characters
RECURSIVE DepthAt(_, _)
DepthAt(str, k) ==
    IF k = 0 THEN 0
    ELSE DepthAt(str, k - 1) + (IF str[k] = "{" THEN 1 ELSE IF str[k] = "}" THEN -1 ELSE 0)

\* str is one {...} group: the brace that opens it is closed by the last character
WhollyBraced(str) ==
    /\ Len(str) >= 2
    /\ str[1] = "{"
    /\ Balanced(str)
    /\ \A k \in 1..(Len(str) - 1) : DepthAt(str, k) >= 1

\* str mixes brace groups with bare text
Mixed(str) == Balanced(str) /\ ~BraceFree(str) /\ ~WhollyBraced(str)

\* C19: on a balanced string that is neither one {...} group nor free of
\* braces, FlattenToMinBraces returns the string unmodified: the string
\* itself, which is Flatten of the tree up to the whitespace Flatten trims.
\* (Stated for strings without an empty group "{}", which ParseBraceTree
\* does not keep.)
C19_MixedUnmodified ==
    mpc = "done" /\ Mixed(minS) /\ ~HasEmptyGroup(minS)
        => minOut \in {minS, Flatten(minTree)}

\* the characters i..j of str are a word: a maximal run without whitespace
IsWord(str, i, j) ==
    /\ i <= j
    /\ \A k \in i..j : ~IsSpace(str[k])
    /\ (i > 1 => IsSpace(str[i - 1]))
    /\ (j < Len(str) => IsSpace(str[j + 1]))

\* the word i..j of str is to be wrapped
Wrapped(str, i, j) ==
    \/ CapitalInside(SubSeq(str, i, j))
    \/ \E k \in i..j : str[k] = "\""

\* what is written before character k of str: "{" where a wrapped word starts
OpenBefore(str, k) ==
    IF \E j \in k..Len(str) : IsWord(str, k, j) /\ Wrapped(str, k, j) THEN <<"{">> ELSE <<>>

\* what is written after character k of str: "}" where a wrapped word ends
CloseAfter(str, k) ==
    IF \E i \in 1..k : IsWord(str, i, k) /\ Wrapped(str, i, k) THEN <<"}">> ELSE <<>>

\* str with every word that is strange-case or has a double quote in one {}
\* pair, everything else copied
MinBraced(str) ==
    Join([k \in 1..Len(str) |-> OpenBefore(str, k) \o <<str[k]>> \o CloseAfter(str, k)])

\* C20: on a string without braces FlattenToMinBraces returns the string
\* with each word (maximal run of non-whitespace characters) in one {} pair
\* iff the word is strange-case or has a double quote, every other word and
\* every whitespace run copied in order; without its braces the result is
\* the input.
C20_BraceFree ==
    mpc = "done" /\ BraceFree(minS) =>
        /\ minOut = MinBraced(minS)
        /\ SelectSeq(minOut, LAMBDA c : ~IsBrace(c)) = minS

\* C20's case: a string without braces of two words and whitespace, one
\* word wrapped and one not
C20_Witness ==
    /\ mpc = "done"
    /\ BraceFree(minS)
    /\ \E k \in 1..Len(minS) : IsSpace(minS[k])
    /\ \E i, j \in 1..Len(minS) : IsWord(minS, i, j) /\ Wrapped(minS, i, j)
    /\ \E i, j \in 1..Len(minS) : IsWord(minS, i, j) /\ ~Wrapped(minS, i, j)

(***************************************************************************)
(* SpecVon: von, last := parseVon(vonWords) on a list of one or more words. *)
(***************************************************************************)
VonWordChoices == { <<"v","o","n">>, <<"d","e">>, <<"M","o","o">>, <<"D","e">> }

InitVon ==
    /\ \E n \in 1..MaxWords : vonWords \in [1..n -> VonWordChoices]
    /\ vonOut = [panic |-> FALSE, von |-> <<>>, last |-> <<>>]
    /\ vpc = "start"
    /\ IdleBrace /\ IdleSymbols /\ IdleSym /\ IdleCmp /\ IdleDedup /\ IdleParse /\ IdleLex /\ IdleName /\ IdleTitle /\ IdleWord /\ IdleMin /\ IdleSplit /\ IdleDollar /\ IdleOrder /\ IdleKind /\ IdleWrite

\* von, last := parseVon(vonWords)
DoParseVon ==
    /\ vpc = "start"
    /\ vonOut' = parseVon(vonWords)
    /\ vpc' = "done"
    /\ UNCHANGED <<vonWords, Symbols, braceVars, symVars, cmpVars, dedupVars, parseVars, lexVars,
                   nameVars, titleVars, wordVars, minVars, splitVars, dollarVars, orderVars, kindVars, writeVars>>

NextVon == DoParseVon

SpecVon == InitVon /\ [][NextVon]_vars

\* the number of leading words of ws, its final word excluded, that all
\* start with a lower-case letter
RECURSIVE LowerPrefix(_, _)
LowerPrefix(ws, k) ==
    IF k < Len(ws) - 1 /\ IsLower(ws[k + 1][1]) THEN LowerPrefix(ws, k + 1) ELSE k

\* C21: for a list of one or more words parseVon returns as von the longest
\* prefix of the list, the final word excluded, made only of words that
\* start with a lower-case letter (empty if the first word does not), and
\* as last all the remaining words; "von de Moo" gives von = "von de",
\* last = "Moo".
C21_VonPrefix ==
    vpc = "done" =>
        /\ ~vonOut.panic
        /\ vonOut.von = JoinWith(SubSeq(vonWords, 1, LowerPrefix(vonWords, 0)), <<" ">>)
        /\ vonOut.last = JoinWith(SubSeq(vonWords, LowerPrefix(vonWords, 0) + 1, Len(vonWords)),
                                  <<" ">>)

(***************************************************************************)
(* SpecSplit: splitOnTopLevelString(authors.S, "and", true) as             *)
(* NormalizeAuthors calls it.                                              *)
(***************************************************************************)
AndSep == <<"a","n","d">>

\* the pieces an author string is written from
SplitTokens == { AndSep, <<"A","n","d">>, <<" ">>, <<"b">>, <<"{">>, <<"}">> }

InitSplit ==
    /\ \E n \in 0..MaxTokens : \E ts \in [1..n -> SplitTokens] : splitS = Join(ts)
    /\ pieces = <<>>
    /\ xpc = "start"
    /\ IdleBrace /\ IdleSymbols /\ IdleSym /\ IdleCmp /\ IdleDedup /\ IdleParse /\ IdleLex /\ IdleName /\ IdleTitle /\ IdleWord /\ IdleMin /\ IdleVon /\ IdleDollar /\ IdleOrder /\ IdleKind /\ IdleWrite

\* a := splitOnTopLevelString(authors.S, "and", true)
DoSplitAuthors ==
    /\ xpc = "start"
    /\ pieces' = splitOnTopLevelString(splitS, AndSep, TRUE)
    /\ xpc' = "done"
    /\ UNCHANGED <<splitS, Symbols, braceVars, symVars, cmpVars, dedupVars, parseVars, lexVars,
                   nameVars, titleVars, wordVars, minVars, vonVars, dollarVars, orderVars, kindVars, writeVars>>

NextSplit == DoSplitAuthors

SpecSplit == InitSplit /\ [][NextSplit]_vars

\* characters k..k+2 of str are an "and" in any letter case, at brace depth
\* 0, with whitespace or a string boundary just before and just after
IsAndAt(str, k) ==
    /\ k + 2 <= Len(str)
    /\ ToLower(SubSeq(str, k, k + 2)) = AndSep
    /\ DepthAt(str, k) = 0
    /\ (k > 1 => IsSpace(str[k - 1]))
    /\ (k + 2 < Len(str) => IsSpace(str[k + 3]))

\* str from character k on, cut at every such "and"; piece is the piece so far
RECURSIVE CutAtAnds(_, _, _)
CutAtAnds(str, k, piece) ==
    IF k > Len(str) THEN <<piece>>
    ELSE IF IsAndAt(str, k) THEN <<piece>> \o CutAtAnds(str, k + 3, <<>>)
    ELSE CutAtAnds(str, k + 1, Append(piece, str[k]))

\* C22: splitOnTopLevelString(s, "and", true) splits s exactly at the
\* occurrences of "and" (in any letter case) at brace depth 0 that have
\* whitespace or a string boundary just before and just after; an "and"
\* followed by another character, as in "a andb", is no split point.
C22_SplitAtAnd ==
    xpc = "done" => pieces = CutAtAnds(splitS, 1, <<>>)

\* C23: whenever RemoveExactDups returns, of every two entries with the same
\* case-insensitive Key that are Equals the later one in Pubs order is gone
\* (it was marked Deleted), so the earliest member of each duplicate class
\* is the one that is left.
C23_FirstOccurrenceKept ==
    Returned("RemoveExactDups") =>
        \A a, b \in 1..Len(PubsIn) :
            (a < b /\ ExactDup(PubsIn[a], PubsIn[b])) => ~Survives(PubsIn[b])

\* C24: for every string s the count that ParseBraceTree(s) returns is
\* len(s) iff s is brace-balanced (no '{' without its '}' and no '}'
\* without its '{').
C24_ConsumedIffBalanced ==
    bpc \in {"parsed", "flattened"} => ((size = Len(s)) <=> Balanced(s))

(***************************************************************************)
(* SpecDollar: the check function of CheckUnmatchedDollarSigns on one      *)
(* field value.                                                            *)
(***************************************************************************)
DollarAlphabet == {"$", "\\", "a"}

InitDollar ==
    /\ \/ \E str \in StringsUpTo(DollarAlphabet, MaxDollar) : dollarV = StringValue(str)
       \/ dollarV = SymbolValueOf(<<"$">>)
       \/ dollarV = NumberValue(1)
    /\ dollarMsg = ""
    /\ dpc = "start"
    /\ IdleBrace /\ IdleSymbols /\ IdleSym /\ IdleCmp /\ IdleDedup /\ IdleParse /\ IdleLex /\ IdleName /\ IdleTitle /\ IdleWord /\ IdleMin /\ IdleVon /\ IdleSplit /\ IdleOrder /\ IdleKind /\ IdleWrite

\* msg := check(tag, v)
DoCheckDollar ==
    /\ dpc = "start"
    /\ dollarMsg' = checkDollar(dollarV)
    /\ dpc' = "done"
    /\ UNCHANGED <<dollarV, Symbols, braceVars, symVars, cmpVars, dedupVars, parseVars, lexVars,
                   nameVars, titleVars, wordVars, minVars, vonVars, splitVars, orderVars, kindVars, writeVars>>

NextDollar == DoCheckDollar

SpecDollar == InitDollar /\ [][NextDollar]_vars

\* the number of backslashes that end just before character k of str
RECURSIVE BackslashRun(_, _)
BackslashRun(str, k) ==
    IF k > 1 /\ str[k - 1] = "\\" THEN 1 + BackslashRun(str, k - 1) ELSE 0

\* the positions of the dollar signs of str that are not escaped
Unescaped(str) ==
    { k \in 1..Len(str) : str[k] = "$" /\ BackslashRun(str, k) % 2 = 0 }

\* C25: the check gives a diagnostic for a String field iff the field has
\* an odd number of unescaped dollar signs, a '$' being escaped exactly
\* when an odd-length run of backslashes ends just before it (in "\$$" the
\* first '$' is escaped and the second is not).
C25_UnmatchedDollar ==
    (dpc = "done" /\ dollarV.T = StringType) =>
        ((dollarMsg # "") <=> (Cardinality(Unescaped(dollarV.S)) % 2 = 1))

\* C26: for every db.Pubs, RemoveContainedEntries hands removeDeleted the
\* number of entries it marked Deleted: removeDeleted does not write past
\* the end of the new slice (no run-time panic), and the new db.Pubs holds
\* exactly the entries that are not Deleted, in order, and no nil slot.
C26_MarkThenCompact ==
    LastPass = "RemoveContainedEntries" =>
        /\ ~panicked
        /\ Len(Pubs) = Len(PubsIn) - ndel
        /\ \A k \in 1..Len(Pubs) : Pubs[k].Kind \notin {"nil", Deleted}
        /\ Pubs = SelectSeq(PubsIn, LAMBDA e : e.id \in Ids(Pubs))

(***************************************************************************)
(* SpecOrder: db.Less on every pair of three field values, as the sort of  *)
(* SortByField calls it, under a fixed symbol table.                       *)
(***************************************************************************)
OrderTables == UNION {[D -> CmpDefs] : D \in SUBSET {<<"a">>}}

OrderValues ==
    {NumberValue(9), NumberValue(10), StringValue(<<"5">>), StringValue(<<"a">>),
     SymbolValueOf(<<"a">>)}

InitOrder ==
    /\ Symbols \in OrderTables
    /\ ordV \in [1..3 -> OrderValues]
    /\ ordLt = <<>>
    /\ opc = "start"
    /\ IdleBrace /\ IdleSym /\ IdleCmp /\ IdleDedup /\ IdleParse /\ IdleLex /\ IdleName /\ IdleTitle /\ IdleWord /\ IdleMin /\ IdleVon /\ IdleSplit /\ IdleDollar /\ IdleKind /\ IdleWrite

\* ans = db.Less(v1, v2), for every two of the three values
DoLess ==
    /\ opc = "start"
    /\ ordLt' = [i \in 1..3 |-> [j \in 1..3 |-> Less(Symbols, ordV[i], ordV[j])]]
    /\ opc' = "done"
    /\ UNCHANGED <<ordV, Symbols, braceVars, symVars, cmpVars, dedupVars, parseVars, lexVars,
                   nameVars, titleVars, wordVars, minVars, vonVars, splitVars, dollarVars, kindVars, writeVars>>

NextOrder == DoLess

SpecOrder == InitOrder /\ [][NextOrder]_vars

\* C27: under a fixed symbol table db.Less is irreflexive, asymmetric and
\* transitive over field values of any tags (for example over Number(9),
\* Number(10) and String("5")), so that a sequence exists in which no value
\* is Less than one placed before it.
C27_StrictOrder ==
    opc = "done" =>
        /\ \A i \in 1..3 : ~ordLt[i][i]
        /\ \A i, j \in 1..3 : ordLt[i][j] => ~ordLt[j][i]
        /\ \A i, j, k \in 1..3 : (ordLt[i][j] /\ ordLt[j][k]) => ordLt[i][k]

(***************************************************************************)
(* SpecKind: entry.Kind = toEntryKind(type), the kind that                  *)
(* CheckRequiredFields looks up in the required table.                     *)
(***************************************************************************)
\* the citation kinds that have a row of their own in the required and
\* optional tables, as <<name, kind>>
CitationKinds ==
    << <<<<"a","r","t","i","c","l","e">>, "article">>,
       <<<<"b","o","o","k">>, "book">>,
       <<<<"b","o","o","k","l","e","t">>, "booklet">>,
       <<<<"i","n","b","o","o","k">>, "inbook">>,
       <<<<"i","n","c","o","l","l","e","c","t","i","o","n">>, "incollection">>,
       <<<<"i","n","p","r","o","c","e","e","d","i","n","g","s">>, "inproceedings">>,
       <<<<"m","a","n","u","a","l">>, "manual">>,
       <<<<"m","a","s","t","e","r","s","t","h","e","s","i","s">>, "mastersthesis">>,
       <<<<"m","i","s","c">>, "misc">>,
       <<<<"p","h","d","t","h","e","s","i","s">>, "phdthesis">>,
       <<<<"p","r","o","c","e","e","d","i","n","g","s">>, "proceedings">>,
       <<<<"t","e","c","h","r","e","p","o","r","t">>, "techreport">>,
       <<<<"u","n","p","u","b","l","i","s","h","e","d">>, "unpublished">> >>

CitationNames == { CitationKinds[k][1] : k \in 1..Len(CitationKinds) }

\* str with the letter at position i in upper case
CapitalAt(str, i) ==
    [str EXCEPT ![i] = IF IsIn(LowerChars, @) THEN UpperChars[IndexIn(LowerChars, @)] ELSE @]

\* str in upper case
ToUpper(str) ==
    [k \in 1..Len(str) |->
        IF IsIn(LowerChars, str[k]) THEN UpperChars[IndexIn(LowerChars, str[k])] ELSE str[k]]

\* entry types: every citation name and two unknown names, in lower case,
\* in upper case and with one capital
TypeNames ==
    LET names == CitationNames \cup { <<"f","o","o">>, <<"b","o","o","k","s">> }
    IN  names \cup { ToUpper(n) : n \in names }
              \cup UNION { { CapitalAt(n, i) : i \in 1..Len(n) } : n \in names }

InitKind ==
    /\ kindIn \in TypeNames
    /\ kindOut = ""
    /\ kpc = "start"
    /\ IdleBrace /\ IdleSymbols /\ IdleSym /\ IdleCmp /\ IdleDedup /\ IdleParse /\ IdleLex /\ IdleName /\ IdleTitle /\ IdleWord /\ IdleMin /\ IdleVon /\ IdleSplit /\ IdleDollar /\ IdleOrder /\ IdleWrite

\* entry.Kind = toEntryKind(type)
DoToEntryKind ==
    /\ kpc = "start"
    /\ kindOut' = toEntryKind(kindIn)
    /\ kpc' = "done"
    /\ UNCHANGED <<kindIn, Symbols, braceVars, symVars, cmpVars, dedupVars, parseVars, lexVars,
                   nameVars, titleVars, wordVars, minVars, vonVars, splitVars, dollarVars,
                   orderVars, writeVars>>

NextKind == DoToEntryKind

SpecKind == InitKind /\ [][NextKind]_vars

\* C28: toEntryKind gives every citation kind that has a row in the
\* required and optional tables for its own name in any letter case, and
\* Other only for a name that is not one of them.
C28_KindOfName ==
    kpc = "done" =>
        /\ \A k \in 1..Len(CitationKinds) :
               ToLower(kindIn) = CitationKinds[k][1] => kindOut = CitationKinds[k][2]
        /\ kindOut = Other => ToLower(kindIn) \notin CitationNames

(***************************************************************************)
(* SpecWrite: writeEntry on an entry of any kind with any set of fields.   *)
(***************************************************************************)
WriteKinds == DOMAIN required \cup {Deleted}

InitWrite ==
    /\ wKind \in WriteKinds
    /\ wTags \in SUBSET {SortedTags[k] : k \in 1..Len(SortedTags)}
    /\ wOut = <<>>
    /\ wrpc = "start"
    /\ IdleBrace /\ IdleSymbols /\ IdleSym /\ IdleCmp /\ IdleDedup /\ IdleParse /\ IdleLex /\ IdleName /\ IdleTitle /\ IdleWord /\ IdleMin /\ IdleVon /\ IdleSplit /\ IdleDollar /\ IdleOrder /\ IdleKind

\* writeEntry(w, e)
DoWriteEntry ==
    /\ wrpc = "start"
    /\ wOut' = writeEntry(wKind, wTags)
    /\ wrpc' = "done"
    /\ UNCHANGED <<wKind, wTags, Symbols, braceVars, symVars, cmpVars, dedupVars, parseVars,
                   lexVars, nameVars, titleVars, wordVars, minVars, vonVars, splitVars,
                   dollarVars, orderVars, kindVars>>

NextWrite == DoWriteEntry

SpecWrite == InitWrite /\ [][NextWrite]_vars

\* the number of lines written for tag
LinesOf(tag) == Cardinality({k \in 1..Len(wOut) : wOut[k] = tag})

\* C29: for every Kind and every Fields, writeEntry writes exactly one
\* tag = value line for each tag of Fields, whichever of the required,
\* optional, blessed and remaining sections the tag is in ("note", required
\* for unpublished and blessed, included), and no other line.
C29_EachFieldOnce ==
    wrpc = "done" =>
        /\ \A tag \in wTags : LinesOf(tag) = 1
        /\ \A k \in 1..Len(wOut) : wOut[k] \in wTags

(***************************************************************************)
(* SpecSkip: SkipToNewLine called at any position of a lexer.  The loop of *)
(* SkipToNewLine is two actions, the test of its condition and its body;   *)
(* it runs without interruption, which is the weak fairness of the two.    *)
(***************************************************************************)
SkipAlphabet == {"a", "\n"}

InitSkip ==
    /\ stream \in StringsUpTo(SkipAlphabet, MaxSkip)
    /\ lexer = NoLexer /\ toks = <<>>
    /\ lexerW = NoLexer /\ toksW = <<>>
    /\ lpc = "new"
    /\ IdleBrace /\ IdleSymbols /\ IdleSym /\ IdleCmp /\ IdleDedup /\ IdleParse /\ IdleName /\ IdleTitle /\ IdleWord /\ IdleMin /\ IdleVon /\ IdleSplit /\ IdleDollar /\ IdleOrder /\ IdleKind /\ IdleWrite

\* l.nextRune(), by which the lexer gets to a later position
DoNextRune ==
    /\ lpc = "lex"
    /\ lexer.err = "nil"
    /\ lexer' = nextRune(stream, lexer).l
    /\ UNCHANGED <<stream, toks, lexerW, toksW, lpc, Symbols, braceVars, symVars, cmpVars,
                   dedupVars, parseVars, nameVars, titleVars, wordVars, minVars, vonVars,
                   splitVars, dollarVars, orderVars, kindVars, writeVars>>

\* the call l.SkipToNewLine()
DoSkipToNewLine ==
    /\ lpc = "lex"
    /\ lpc' = "skip"
    /\ UNCHANGED <<stream, lexer, toks, lexerW, toksW, Symbols, braceVars, symVars, cmpVars,
                   dedupVars, parseVars, nameVars, titleVars, wordVars, minVars, vonVars,
                   splitVars, dollarVars, orderVars, kindVars, writeVars>>

\* the test of for l.curRune() != '\n', and return l.Err() when it fails
SkipLoop ==
    /\ lpc = "skip"
    /\ lpc' = IF lexer.ch = "\n" THEN "returned" ELSE "body"
    /\ UNCHANGED <<stream, lexer, toks, lexerW, toksW, Symbols, braceVars, symVars, cmpVars,
                   dedupVars, parseVars, nameVars, titleVars, wordVars, minVars, vonVars,
                   splitVars, dollarVars, orderVars, kindVars, writeVars>>

\* the body of the loop: l.nextRune(), its result not looked at
SkipBody ==
    /\ lpc = "body"
    /\ lexer' = nextRune(stream, lexer).l
    /\ lpc' = "skip"
    /\ UNCHANGED <<stream, toks, lexerW, toksW, Symbols, braceVars, symVars, cmpVars,
                   dedupVars, parseVars, nameVars, titleVars, wordVars, minVars, vonVars,
                   splitVars, dollarVars, orderVars, kindVars, writeVars>>

NextSkip == DoNewLexer \/ DoNextRune \/ DoSkipToNewLine \/ SkipLoop \/ SkipBody

SpecSkip == InitSkip /\ [][NextSkip]_vars /\ WF_vars(SkipLoop) /\ WF_vars(SkipBody)

\* C30: a call of SkipToNewLine returns, for every input and every position
\* of the lexer: at the next '\n', or at the end of the input when no '\n'
\* is left.
C30_SkipToNewLineReturns == (lpc = "skip") ~> (lpc = "returned")

====
